---------------------------- MODULE Spec2Model ----------------------------
(***************************************************************************)
(* Model of examples/claims_processor/claims_processor.py: the Claim       *)
(* entity, the ClaimsProcessor engine and the module's helper functions;   *)
(* and of data/policy_calculator.py: the PolicyHolder and the premium      *)
(* calculations.                                                           *)
(*                                                                         *)
(* Dates and timestamps are whole days (integers); money amounts are       *)
(* integers.  A dict is modelled in insertion order: the claim map and     *)
(* the adjuster table are sequences of records, each record carrying its   *)
(* key.  uuid4() is modelled as the next unused natural number.            *)
(***************************************************************************)
EXTENDS Integers, Sequences, FiniteSets, TLC

VARIABLES
    claims,            \* ClaimsProcessor.claims: Claim records, insertion order
    auto_assignment,   \* ClaimsProcessor.auto_assignment
    adjusters,         \* ClaimsProcessor.adjusters: adjuster profiles, table order
    fraud_thresholds,  \* ClaimsProcessor.fraud_thresholds
    now,               \* the wall clock read by datetime.now()
    policy_holder,     \* the PolicyHolder object constructed, if any: <<>> or <<h>>
    returned           \* the last call of a function, with the value it returned

vars == <<claims, auto_assignment, adjusters, fraud_thresholds, now,
          policy_holder, returned>>

----------------------------------------------------------------------------
(* Bounds of the model *)

\* Spec, SpecProcessor: the stored claims and the notes of all their trails
MaxClaims == 2
MaxNotes == 4
\* SpecClaim: the notes of the claim's trail and the days the clock runs
MaxTrail == 3
MaxTime == 1
\* SpecCreate: the stored claims
MaxCreated == 4
\* SpecCompliance: the notes of all trails
MaxFiled == 6

----------------------------------------------------------------------------
(* Constants of the program *)

CLAIM_STATUS_CODES ==
    {"NEW", "ASSIGNED", "INVESTIGATING", "PENDING_INFO", "APPROVED",
     "PARTIAL_APPROVED", "DENIED", "CLOSED", "REOPENED"}

\* STATE_COMPLIANCE_REQUIREMENTS
STATE_COMPLIANCE_REQUIREMENTS ==
    [CA |-> [time_to_acknowledge |-> 15, time_to_decision |-> 40,
             documentation_level |-> "high"],
     NY |-> [time_to_acknowledge |-> 7, time_to_decision |-> 30,
             documentation_level |-> "high"],
     TX |-> [time_to_acknowledge |-> 15, time_to_decision |-> 45,
             documentation_level |-> "medium"],
     FL |-> [time_to_acknowledge |-> 14, time_to_decision |-> 90,
             documentation_level |-> "high"],
     DEFAULT |-> [time_to_acknowledge |-> 15, time_to_decision |-> 45,
                  documentation_level |-> "medium"]]

None == "<None>"

\* dict.get(key, default)
Get(dict, key, default) == IF key \in DOMAIN dict THEN dict[key] ELSE default

\* no function was called yet
NoCall == [call |-> None, args |-> <<>>, value |-> None]
SYSTEM == "SYSTEM"

\* Python truthiness of an Optional[str]: None and '' are falsy
Truthy(x) == x /= None /\ x /= ""

Last(s) == s[Len(s)]

Min(a, b) == IF a <= b THEN a ELSE b
Max(a, b) == IF a >= b THEN a ELSE b

RECURSIVE SumSeq(_)
SumSeq(s) == IF s = <<>> THEN 0 ELSE Head(s) + SumSeq(Tail(s))

----------------------------------------------------------------------------
(* Claim: the entity and its methods, as functions on a Claim record.      *)
(* t is the value datetime.now() returns during the call.                  *)

\* add_note that leaves last_updated alone
AddNote_KeepsLastUpdated(c, content, created_by, t) ==
    [c EXCEPT !.notes = Append(@, [content |-> content,
                                   created_by |-> created_by,
                                   timestamp |-> t])]

\* Claim.add_note
AddNote(c, content, created_by, t) ==
    [c EXCEPT !.notes = Append(@, [content |-> content,
                                   created_by |-> created_by,
                                   timestamp |-> t]),
              !.last_updated = t]

\* Claim.__init__
NewClaim(id, policy_number, claim_type, incident_date, reported_date, claimant_info, estimated_value, t) ==
    AddNote([claim_id |-> id,
             policy_number |-> policy_number,
             claim_type |-> claim_type,
             incident_date |-> incident_date,
             reported_date |-> reported_date,
             claimant_info |-> claimant_info,
             estimated_value |-> estimated_value,
             actual_value |-> 0,
             status |-> "NEW",
             assigned_adjuster |-> None,
             coverage_verified |-> FALSE,
             documents |-> <<>>,
             notes |-> <<>>,
             state_code |-> IF "state" \in DOMAIN claimant_info
                            THEN claimant_info["state"] ELSE "DEFAULT",
             last_updated |-> reported_date],
            <<"Claim created">>, SYSTEM, t)

\* update_status without the vocabulary check
UpdateStatusOk_AcceptsAny(new_status) == TRUE

\* Claim.update_status: the returned bool
UpdateStatusOk(new_status) == new_status \in CLAIM_STATUS_CODES

\* update_status that stores the new status before it checks it
UpdateStatus_StoresFirst(c, new_status, updated_by, t) ==
    IF new_status \notin CLAIM_STATUS_CODES
    THEN [c EXCEPT !.status = new_status]
    ELSE AddNote([c EXCEPT !.status = new_status, !.last_updated = t],
                 <<"Status changed", c.status, new_status>>, updated_by, t)

\* update_status that lets no claim leave CLOSED
UpdateStatus_ClosedIsTerminal(c, new_status, updated_by, t) ==
    IF ~UpdateStatusOk(new_status) \/ c.status = "CLOSED"
    THEN c
    ELSE AddNote([c EXCEPT !.status = new_status, !.last_updated = t],
                 <<"Status changed", c.status, new_status>>, updated_by, t)

\* Claim.update_status: the claim after the call
UpdateStatus(c, new_status, updated_by, t) ==
    IF ~UpdateStatusOk(new_status)
    THEN c
    ELSE AddNote([c EXCEPT !.status = new_status, !.last_updated = t],
                 <<"Status changed", c.status, new_status>>, updated_by, t)

\* assign_adjuster that moves the claim to ASSIGNED on a reassignment too
AssignAdjuster_AlwaysAssigned(c, adjuster_id, updated_by, t) ==
    LET old_adjuster == c.assigned_adjuster
        c1 == [c EXCEPT !.assigned_adjuster = adjuster_id, !.last_updated = t]
    IN  IF Truthy(old_adjuster)
        THEN AddNote([c1 EXCEPT !.status = "ASSIGNED"],
                     <<"Reassigned", old_adjuster, adjuster_id>>, updated_by, t)
        ELSE AddNote(UpdateStatus(c1, "ASSIGNED", updated_by, t),
                     <<"Assigned", adjuster_id>>, updated_by, t)

\* Claim.assign_adjuster
AssignAdjuster(c, adjuster_id, updated_by, t) ==
    LET old_adjuster == c.assigned_adjuster
        c1 == [c EXCEPT !.assigned_adjuster = adjuster_id, !.last_updated = t]
    IN  IF Truthy(old_adjuster)
        THEN AddNote(c1, <<"Reassigned", old_adjuster, adjuster_id>>, updated_by, t)
        ELSE AddNote(UpdateStatus(c1, "ASSIGNED", updated_by, t),
                     <<"Assigned", adjuster_id>>, updated_by, t)

\* add_document that keeps only the newest document
AddDocument_KeepsNewest(c, document_name, document_type, content_ref, uploaded_by, t) ==
    AddNote([c EXCEPT !.documents = <<[name |-> document_name,
                                      type |-> document_type,
                                      content_ref |-> content_ref,
                                      uploaded_by |-> uploaded_by,
                                      upload_date |-> t]>>,
                      !.last_updated = t],
            <<"Document added", document_name, document_type>>, uploaded_by, t)

\* Claim.add_document
AddDocument(c, document_name, document_type, content_ref, uploaded_by, t) ==
    AddNote([c EXCEPT !.documents = Append(@, [name |-> document_name,
                                               type |-> document_type,
                                               content_ref |-> content_ref,
                                               uploaded_by |-> uploaded_by,
                                               upload_date |-> t]),
                      !.last_updated = t],
            <<"Document added", document_name, document_type>>, uploaded_by, t)

\* update_value that records no note
UpdateValue_NoNote(c, new_value, is_estimate, updated_by, t) ==
    IF is_estimate
    THEN [c EXCEPT !.estimated_value = new_value, !.last_updated = t]
    ELSE [c EXCEPT !.actual_value = new_value, !.last_updated = t]

\* Claim.update_value
UpdateValue(c, new_value, is_estimate, updated_by, t) ==
    LET old_value == IF is_estimate THEN c.estimated_value ELSE c.actual_value
        value_type == IF is_estimate THEN "estimated" ELSE "actual"
        c1 == IF is_estimate
              THEN [c EXCEPT !.estimated_value = new_value, !.last_updated = t]
              ELSE [c EXCEPT !.actual_value = new_value, !.last_updated = t]
    IN  AddNote(c1, <<"Value updated", value_type, old_value, new_value>>,
                updated_by, t)

\* verify_coverage that stores the outcome in coverage_verified
VerifyCoverage_StoresOutcome(c, is_covered, reason, verified_by, t) ==
    LET c1 == [c EXCEPT !.coverage_verified = is_covered, !.last_updated = t]
    IN  IF is_covered
        THEN AddNote(c1, <<"Coverage verified", reason>>, verified_by, t)
        ELSE AddNote(UpdateStatus(c1, "DENIED", verified_by, t),
                     <<"Coverage denied", reason>>, verified_by, t)

\* Claim.verify_coverage
VerifyCoverage(c, is_covered, reason, verified_by, t) ==
    LET c1 == [c EXCEPT !.coverage_verified = TRUE, !.last_updated = t]
    IN  IF is_covered
        THEN AddNote(c1, <<"Coverage verified", reason>>, verified_by, t)
        ELSE AddNote(UpdateStatus(c1, "DENIED", verified_by, t),
                     <<"Coverage denied", reason>>, verified_by, t)

\* check_compliance_status: STATE_COMPLIANCE_REQUIREMENTS.get(state_code, DEFAULT)
Requirements(state_code) ==
    IF state_code \in DOMAIN STATE_COMPLIANCE_REQUIREMENTS
    THEN STATE_COMPLIANCE_REQUIREMENTS[state_code]
    ELSE STATE_COMPLIANCE_REQUIREMENTS["DEFAULT"]

\* check_compliance_status: min_documents
MinDocuments(doc_level) ==
    IF doc_level = "high" THEN 3 ELSE IF doc_level = "medium" THEN 2 ELSE 1

\* a compliance check that takes the acknowledgment limit as exclusive
CheckComplianceStatus_ExclusiveLimit(c, t) ==
    LET requirements == Requirements(c.state_code)
        days_since_reported == t - c.reported_date
        acknowledgment_compliant ==
            c.status /= "NEW" \/ days_since_reported < requirements.time_to_acknowledge
        decision_compliant ==
            \/ c.status \in {"APPROVED", "PARTIAL_APPROVED", "DENIED", "CLOSED"}
            \/ days_since_reported <= requirements.time_to_decision
        min_documents == MinDocuments(requirements.documentation_level)
        documentation_compliant == Len(c.documents) >= min_documents
    IN  [is_compliant |-> acknowledgment_compliant /\ decision_compliant
                              /\ documentation_compliant,
         acknowledgment_compliant |-> acknowledgment_compliant,
         decision_compliant |-> decision_compliant,
         documentation_compliant |-> documentation_compliant,
         days_since_reported |-> days_since_reported,
         required_acknowledgment_days |-> requirements.time_to_acknowledge,
         required_decision_days |-> requirements.time_to_decision,
         required_documents |-> min_documents,
         actual_documents |-> Len(c.documents),
         state |-> c.state_code]

\* Claim.check_compliance_status: the returned dict; t is datetime.now()
CheckComplianceStatus(c, t) ==
    LET requirements == Requirements(c.state_code)
        days_since_reported == t - c.reported_date
        acknowledgment_compliant ==
            c.status /= "NEW" \/ days_since_reported <= requirements.time_to_acknowledge
        decision_compliant ==
            \/ c.status \in {"APPROVED", "PARTIAL_APPROVED", "DENIED", "CLOSED"}
            \/ days_since_reported <= requirements.time_to_decision
        min_documents == MinDocuments(requirements.documentation_level)
        documentation_compliant == Len(c.documents) >= min_documents
    IN  [is_compliant |-> acknowledgment_compliant /\ decision_compliant
                              /\ documentation_compliant,
         acknowledgment_compliant |-> acknowledgment_compliant,
         decision_compliant |-> decision_compliant,
         documentation_compliant |-> documentation_compliant,
         days_since_reported |-> days_since_reported,
         required_acknowledgment_days |-> requirements.time_to_acknowledge,
         required_decision_days |-> requirements.time_to_decision,
         required_documents |-> min_documents,
         actual_documents |-> Len(c.documents),
         state |-> c.state_code]

\* a compliance check that stamps the claim
CheckComplianceClaim_Stamps(c, t) == [c EXCEPT !.last_updated = t]

\* Claim.check_compliance_status: the claim after the call (it writes no field)
CheckComplianceClaim(c, t) == c

----------------------------------------------------------------------------
(* ClaimsProcessor: helpers on the claim map cs (a sequence of Claims)     *)

\* ClaimsProcessor.get_claim: the position of the claim, 0 for None
GetClaim(cs, claim_id) ==
    IF \E i \in 1..Len(cs) : cs[i].claim_id = claim_id
    THEN CHOOSE i \in 1..Len(cs) : cs[i].claim_id = claim_id
    ELSE 0

\* get_claims_by_status returning the newest claim first
GetClaimsByStatus_NewestFirst(cs, status) ==
    LET found == SelectSeq([i \in 1..Len(cs) |-> i], LAMBDA i : cs[i].status = status)
    IN  [j \in 1..Len(found) |-> found[Len(found) + 1 - j]]

\* ClaimsProcessor.get_claims_by_status (the positions, in map order)
GetClaimsByStatus(cs, status) ==
    SelectSeq([i \in 1..Len(cs) |-> i], LAMBDA i : cs[i].status = status)

\* ClaimsProcessor.get_claims_by_adjuster (the positions, in map order)
GetClaimsByAdjuster(cs, adjuster_id) ==
    SelectSeq([i \in 1..Len(cs) |-> i],
              LAMBDA i : cs[i].assigned_adjuster = adjuster_id)

\* ClaimsProcessor.get_claims_by_policy (the positions, in map order)
GetClaimsByPolicy(cs, policy_number) ==
    SelectSeq([i \in 1..Len(cs) |-> i],
              LAMBDA i : cs[i].policy_number = policy_number)

\* `adjuster_id in self.adjusters`
InAdjusters(adjuster_id) == \E k \in 1..Len(adjusters) : adjusters[k].id = adjuster_id


\* a candidate selection that ignores the specializations
SpecializedAdjusters_AnyAdjuster(claim_type) == adjusters

\* _auto_assign_adjuster: the candidate table (specialists, else everybody)
SpecializedAdjusters(claim_type) ==
    LET specialized == SelectSeq(adjusters,
                                 LAMBDA adj : claim_type \in adj.specializations)
    IN  IF specialized = <<>> THEN adjusters ELSE specialized

\* a workload that counts only the claims not yet closed
Workload_OpenOnly(cs, adj_id) ==
    Len(SelectSeq(GetClaimsByAdjuster(cs, adj_id), LAMBDA i : cs[i].status /= "CLOSED"))

\* _auto_assign_adjuster: len(self.get_claims_by_adjuster(adj_id))
Workload(cs, adj_id) == Len(GetClaimsByAdjuster(cs, adj_id))

\* a minimum search that keeps the last of equal minima
MinWorkload_LastMinimum(cs, candidates) ==
    LET k == CHOOSE k \in 1..Len(candidates) :
                 /\ \A j \in 1..Len(candidates) :
                        Workload(cs, candidates[k].id) <= Workload(cs, candidates[j].id)
                 /\ \A j \in (k + 1)..Len(candidates) :
                        Workload(cs, candidates[j].id) > Workload(cs, candidates[k].id)
    IN  candidates[k].id

\* min(adjuster_workloads, key=adjuster_workloads.get): the first key, in the
\* dict's order, whose workload is minimal
MinWorkload(cs, candidates) ==
    LET k == CHOOSE k \in 1..Len(candidates) :
                 /\ \A j \in 1..Len(candidates) :
                        Workload(cs, candidates[k].id) <= Workload(cs, candidates[j].id)
                 /\ \A j \in 1..(k - 1) :
                        Workload(cs, candidates[j].id) > Workload(cs, candidates[k].id)
    IN  candidates[k].id

\* ClaimsProcessor._auto_assign_adjuster, on the claim at position i
AutoAssignAdjuster(cs, i, t) ==
    IF adjusters = <<>>
    THEN cs
    ELSE LET assigned_adjuster ==
                 MinWorkload(cs, SpecializedAdjusters(cs[i].claim_type))
         IN  [cs EXCEPT ![i] = AssignAdjuster(@, assigned_adjuster, SYSTEM, t)]

\* flag_for_investigation: [adj_id for ... if adj.get('specialization') == 'fraud']
FraudInvestigators ==
    SelectSeq(adjusters, LAMBDA adj : adj.specialization = "fraud")

\* ClaimsProcessor.flag_for_investigation: the claim map after the call
FlagForInvestigation(cs, claim_id, reason, flagged_by, t) ==
    LET i == GetClaim(cs, claim_id)
        c1 == AddNote(UpdateStatus(cs[i], "INVESTIGATING", flagged_by, t),
                      <<"Flagged for investigation", reason>>, flagged_by, t)
        c2 == IF FraudInvestigators /= <<>>
              THEN AssignAdjuster(c1, FraudInvestigators[1].id, SYSTEM, t)
              ELSE c1
    IN  IF i = 0 THEN cs ELSE [cs EXCEPT ![i] = c2]

\* the reason _validate_claim passes to flag_for_investigation
ExcessiveClaims(n) == <<"Excessive claims on policy", n>>

\* _validate_claim: the late-reporting check
ValidateReportingTime(c, t) ==
    LET days_to_report == c.reported_date - c.incident_date
    IN  IF days_to_report > fraud_thresholds.time_to_report
        THEN AddNote(c, <<"Late reporting detected", days_to_report>>, SYSTEM, t)
        ELSE c

\* _validate_claim: the high-value check
ValidateHighValue(c, t) ==
    IF c.estimated_value > fraud_thresholds.value_threshold
    THEN AddNote(c, <<"High value claim detected", c.estimated_value>>, SYSTEM, t)
    ELSE c

\* a multiple-claims check that flags as soon as the threshold is reached
ValidateMultipleClaims_FlagsAtThreshold(cs, i, t) ==
    LET n == Len(GetClaimsByPolicy(cs, cs[i].policy_number))
        noted == [cs EXCEPT ![i] = AddNote(@, <<"Multiple claims detected", n>>,
                                           SYSTEM, t)]
    IN  IF n >= fraud_thresholds.multiple_claims
        THEN FlagForInvestigation(noted, cs[i].claim_id, ExcessiveClaims(n), SYSTEM, t)
        ELSE cs

\* _validate_claim: the multiple-claims check, on the claim at position i
ValidateMultipleClaims(cs, i, t) ==
    LET n == Len(GetClaimsByPolicy(cs, cs[i].policy_number))
        noted == [cs EXCEPT ![i] = AddNote(@, <<"Multiple claims detected", n>>,
                                           SYSTEM, t)]
    IN  IF n >= fraud_thresholds.multiple_claims
        THEN IF n > fraud_thresholds.multiple_claims
             THEN FlagForInvestigation(noted, cs[i].claim_id, ExcessiveClaims(n),
                                       SYSTEM, t)
             ELSE noted
        ELSE cs

\* `key in self.fraud_thresholds`
HasThreshold(key) == key \in DOMAIN fraud_thresholds

\* _validate_claim raises KeyError: self.fraud_thresholds[...] on a dict that
\* lacks one of the three keys
ValidateClaimRaises ==
    \/ ~HasThreshold("time_to_report")
    \/ ~HasThreshold("value_threshold")
    \/ ~HasThreshold("multiple_claims")

\* ClaimsProcessor._validate_claim, on the claim at position i: the claim map
\* when it returns, or when the KeyError leaves it
ValidateClaim(cs, i, t) ==
    IF ~HasThreshold("time_to_report") THEN cs
    ELSE LET reported == [cs EXCEPT ![i] = ValidateReportingTime(@, t)]
         IN  IF ~HasThreshold("value_threshold") THEN reported
             ELSE LET valued == [reported EXCEPT ![i] = ValidateHighValue(@, t)]
                  IN  IF ~HasThreshold("multiple_claims") THEN valued
                      ELSE ValidateMultipleClaims(valued, i, t)

\* a settlement that forgets the coverage limit
SettlementAmount_NoLimit(total_damages, deductible, coverage_limit) ==
    Max(0, total_damages - deductible)

\* calculate_settlement: the settlement amount
SettlementAmount(total_damages, deductible, coverage_limit) ==
    Min(Max(0, total_damages - deductible), coverage_limit)

\* a settlement that refuses a denied claim
SettlementResult_RefusesDenied(cs, i, damages, deductible, coverage_limit) ==
    LET total_damages == SumSeq(damages)
        settlement_amount == SettlementAmount(total_damages, deductible, coverage_limit)
    IN  IF i = 0
        THEN [success |-> FALSE, error |-> "Claim not found"]
        ELSE IF ~cs[i].coverage_verified \/ cs[i].status = "DENIED"
        THEN [success |-> FALSE, error |-> "Coverage not verified",
              total_damages |-> total_damages, settlement_amount |-> 0]
        ELSE [success |-> TRUE,
              total_damages |-> total_damages,
              deductible_applied |-> deductible,
              coverage_limit |-> coverage_limit,
              settlement_amount |-> settlement_amount,
              fully_covered |-> total_damages <= settlement_amount + deductible]

\* calculate_settlement: the returned dict; i is the claim's position (0: None)
SettlementResult(cs, i, damages, deductible, coverage_limit) ==
    LET total_damages == SumSeq(damages)
        settlement_amount == SettlementAmount(total_damages, deductible, coverage_limit)
    IN  IF i = 0
        THEN [success |-> FALSE, error |-> "Claim not found"]
        ELSE IF ~cs[i].coverage_verified
        THEN [success |-> FALSE, error |-> "Coverage not verified",
              total_damages |-> total_damages, settlement_amount |-> 0]
        ELSE [success |-> TRUE,
              total_damages |-> total_damages,
              deductible_applied |-> deductible,
              coverage_limit |-> coverage_limit,
              settlement_amount |-> settlement_amount,
              fully_covered |-> total_damages <= settlement_amount + deductible]

\* a settlement that writes the value before it checks the coverage
SettlementClaims_WritesFirst(cs, i, damages, deductible, coverage_limit, t) ==
    IF i = 0
    THEN cs
    ELSE [cs EXCEPT ![i] = UpdateValue(@, SettlementAmount(SumSeq(damages), deductible,
                                                           coverage_limit),
                                       FALSE, SYSTEM, t)]

\* calculate_settlement: the claim map after the call
SettlementClaims(cs, i, damages, deductible, coverage_limit, t) ==
    IF i = 0 \/ ~cs[i].coverage_verified
    THEN cs
    ELSE [cs EXCEPT ![i] = UpdateValue(@, SettlementAmount(SumSeq(damages), deductible,
                                                           coverage_limit),
                                       FALSE, SYSTEM, t)]

----------------------------------------------------------------------------
(* Inputs of the calls *)

Policies == {"CA-23-123456-H", "TX-23-000001-A"}
ClaimTypes == {"AUTO", "COMMERCIAL"}
Users == {"alice"}
UserReasons == {<<"suspicious">>}
\* the incident 31 days before day 0, reported 30 or 31 days later
IncidentDates == {-31}
ReportedDates == {-1, 0}
\* claims reported today, the day after the incident
RecentIncidentDates == {-1}
\* claimants of states with their own requirements, of a state without, and
\* without a state
Claimants == {[state |-> "CA"], [state |-> "NY"], [state |-> "ZZ"], [name |-> "Bob"]}
\* the statuses a handled claim is moved to: acknowledged, decided
HandlingStatuses == {"ASSIGNED", "APPROVED"}
EstimatedValues == {50000, 60000}
ClaimantInfos == {[state |-> "CA"], [name |-> "Bob"]}
Resolutions == {<<"paid">>}
DocumentInputs == {<<"photo.jpg", "PHOTO", "/docs/photo.jpg">>}
NoteInputs == {<<"called claimant">>}
ValueInputs == {2500}
CoverageReasons == {<<"policy active">>}
\* 'BOGUS' is no status code
StatusInputs == CLAIM_STATUS_CODES \cup {"BOGUS"}
\* 'GHOST' is in no adjuster table
AdjusterInputs == {"ADJ1", "FRD1", SYSTEM, "GHOST"}
\* damages.values(), deductible, coverage_limit
DamagesInputs == {<<>>, <<10000>>, <<2000, 1000>>, <<300, 100>>}
SettlementTerms == {<<1000, 5000>>, <<500, 50000>>}
\* claim ids handed to the processor: those it has issued, and 0 (never issued)
ClaimIdInputs == 0..Len(claims)

\* adjuster profiles: `specializations` is the documented key, `specialization`
\* the key flag_for_investigation reads (None when the profile has no such key)
Adjuster(id, specializations, specialization) ==
    [id |-> id, specializations |-> specializations, specialization |-> specialization]

NoAdjusters == <<>>
TwoAutoAdjusters ==
    <<Adjuster("ADJ2", {"AUTO"}, None), Adjuster("ADJ1", {"AUTO", "HOME"}, None)>>
WithFraudKey ==
    <<Adjuster("ADJ1", {"AUTO"}, None), Adjuster("FRD1", {}, "fraud")>>
WithFraudSpecialist ==
    <<Adjuster("ADJ1", {"HOME"}, None), Adjuster("FRD1", {"fraud", "AUTO"}, None)>>
FraudAmongAuto ==
    <<Adjuster("ADJ1", {"AUTO"}, None), Adjuster("FRD1", {"AUTO"}, "fraud")>>

\* ClaimsProcessor.__init__: the default fraud thresholds, multiple_claims = m
Thresholds(m) ==
    [time_to_report |-> 30, value_threshold |-> 50000, multiple_claims |-> m]

----------------------------------------------------------------------------
(* Initial state: ClaimsProcessor.__init__ under one of the configurations *)

InitWith(tables, autos, multiples) ==
    /\ claims = <<>>
    /\ auto_assignment \in autos
    /\ adjusters \in tables
    /\ fraud_thresholds \in {Thresholds(m) : m \in multiples}
    /\ now = 0
    /\ policy_holder = <<>>
    /\ returned = NoCall

Init == InitWith({TwoAutoAdjusters, WithFraudKey}, {TRUE, FALSE}, {2})

\* a processor with its defaults, for the calls that do not read it
InitDefault == InitWith({NoAdjusters}, {FALSE}, {2})

----------------------------------------------------------------------------
(* ClaimsProcessor: the public operations, as the claim map after the call *)
(* and the value returned                                                  *)

\* create_claim that validates the new claim before it assigns it
CreateClaim_ValidatesFirst(cs, policy_number, claim_type, incident_date, reported_date, claimant_info, estimated_value, t) ==
    LET stored == Append(cs, NewClaim(Len(cs) + 1, policy_number, claim_type,
                                      incident_date, reported_date, claimant_info,
                                      estimated_value, t))
        validated == ValidateClaim(stored, Len(stored), t)
    IN  IF auto_assignment
        THEN AutoAssignAdjuster(validated, Len(validated), t)
        ELSE validated

\* ClaimsProcessor.create_claim: the claim map after the call (the new claim
\* is the last one); uuid4() gives the next unused id
CreateClaim(cs, policy_number, claim_type, incident_date, reported_date, claimant_info, estimated_value, t) ==
    LET stored == Append(cs, NewClaim(Len(cs) + 1, policy_number, claim_type,
                                      incident_date, reported_date, claimant_info,
                                      estimated_value, t))
        assigned == IF auto_assignment
                    THEN AutoAssignAdjuster(stored, Len(stored), t)
                    ELSE stored
    IN  ValidateClaim(assigned, Len(assigned), t)

\* ClaimsProcessor.create_claim raises instead of returning the claim
CreateClaimRaises == ValidateClaimRaises

\* a float that is the quotient of two integers, kept exact
Ratio(num, den) == [num |-> num, den |-> den]

\* get_compliance_report: the entry of a state seen for the first time
NewGroup ==
    [total_claims |-> 0, compliant_claims |-> 0, non_compliant_claims |-> 0,
     compliance_rate |-> Ratio(0, 1)]

\* a loop body that counts the compliant claims only
CountClaim_CompliantOnly(report, c, t) ==
    LET state == c.state_code
        opened == IF state \in DOMAIN report THEN report
                  ELSE report @@ (state :> NewGroup)
        compliance_status == CheckComplianceStatus(c, t)
    IN  [opened EXCEPT ![state] =
            [@ EXCEPT !.total_claims = @ + 1,
                      !.compliant_claims =
                          IF compliance_status.is_compliant THEN @ + 1 ELSE @]]

\* get_compliance_report: the body of the loop over the claims
CountClaim(report, c, t) ==
    LET state == c.state_code
        opened == IF state \in DOMAIN report THEN report
                  ELSE report @@ (state :> NewGroup)
        compliance_status == CheckComplianceStatus(c, t)
    IN  [opened EXCEPT ![state] =
            [@ EXCEPT !.total_claims = @ + 1,
                      !.compliant_claims =
                          IF compliance_status.is_compliant THEN @ + 1 ELSE @,
                      !.non_compliant_claims =
                          IF compliance_status.is_compliant THEN @ ELSE @ + 1]]

\* get_compliance_report: the report after the loop has seen the first k claims
RECURSIVE CountClaims(_, _, _)
CountClaims(cs, k, t) ==
    IF k = 0
    THEN [state \in {} |-> NewGroup]
    ELSE CountClaim(CountClaims(cs, k - 1, t), cs[k], t)

\* ClaimsProcessor.get_compliance_report: the returned dict, a function from the
\* state codes to their entries
GetComplianceReport(cs, t) ==
    LET report == CountClaims(cs, Len(cs), t)
    IN  [state \in DOMAIN report |->
            IF report[state].total_claims > 0
            THEN [report[state] EXCEPT
                      !.compliance_rate = Ratio(report[state].compliant_claims * 100,
                                                report[state].total_claims)]
            ELSE report[state]]

\* ClaimsProcessor.update_claim_status: the returned bool
UpdateClaimStatusResult(cs, claim_id, new_status) ==
    IF GetClaim(cs, claim_id) = 0 THEN FALSE ELSE UpdateStatusOk(new_status)

\* ClaimsProcessor.update_claim_status: the claim map after the call
UpdateClaimStatus(cs, claim_id, new_status, updated_by, t) ==
    LET i == GetClaim(cs, claim_id)
    IN  IF i = 0 THEN cs
        ELSE [cs EXCEPT ![i] = UpdateStatus(@, new_status, updated_by, t)]

\* an adjuster check that lets every id through
AdjusterExists_Any(adjuster_id) == TRUE

\* ClaimsProcessor.assign_claim: the adjuster check
AdjusterExists(adjuster_id) == InAdjusters(adjuster_id) \/ adjuster_id = SYSTEM

\* ClaimsProcessor.assign_claim: the returned bool
AssignClaimResult(cs, claim_id, adjuster_id) ==
    GetClaim(cs, claim_id) /= 0 /\ AdjusterExists(adjuster_id)

\* ClaimsProcessor.assign_claim: the claim map after the call
AssignClaim(cs, claim_id, adjuster_id, updated_by, t) ==
    LET i == GetClaim(cs, claim_id)
    IN  IF i = 0 \/ ~AdjusterExists(adjuster_id) THEN cs
        ELSE [cs EXCEPT ![i] = AssignAdjuster(@, adjuster_id, updated_by, t)]

\* ClaimsProcessor.flag_for_investigation: the returned bool
FlagForInvestigationResult(cs, claim_id) == GetClaim(cs, claim_id) /= 0

\* ClaimsProcessor.close_claim: the returned bool
CloseClaimResult(cs, claim_id) == GetClaim(cs, claim_id) /= 0

\* close_claim that falls back to the first claim when the id is unknown
CloseClaim_FallsBack(cs, claim_id, resolution, closed_by, t) ==
    LET i == IF GetClaim(cs, claim_id) = 0 /\ cs /= <<>> THEN 1
             ELSE GetClaim(cs, claim_id)
    IN  IF i = 0 THEN cs
        ELSE [cs EXCEPT ![i] = AddNote(UpdateStatus(@, "CLOSED", closed_by, t),
                                       <<"Claim closed", resolution>>, closed_by, t)]

\* close_claim that takes the closed claim out of the map
CloseClaim_Removes(cs, claim_id, resolution, closed_by, t) ==
    LET i == GetClaim(cs, claim_id)
    IN  IF i = 0 THEN cs
        ELSE SubSeq(cs, 1, i - 1) \o SubSeq(cs, i + 1, Len(cs))

\* ClaimsProcessor.close_claim: the claim map after the call
CloseClaim(cs, claim_id, resolution, closed_by, t) ==
    LET i == GetClaim(cs, claim_id)
    IN  IF i = 0 THEN cs
        ELSE [cs EXCEPT ![i] = AddNote(UpdateStatus(@, "CLOSED", closed_by, t),
                                       <<"Claim closed", resolution>>, closed_by, t)]

----------------------------------------------------------------------------
(* claims_processor.py: the module-level functions.  A string is the       *)
(* sequence of its characters.                                             *)

Uppercase ==
    {"A", "B", "C", "D", "E", "F", "G", "H", "I", "J", "K", "L", "M",
     "N", "O", "P", "Q", "R", "S", "T", "U", "V", "W", "X", "Y", "Z"}

Digits == {"0", "1", "2", "3", "4", "5", "6", "7", "8", "9"}

\* the pattern ^[A-Z]{2}-\d{2}-\d{6}-[AHCFM]: each item a character class and
\* the number of times it repeats
PolicyNumberPattern ==
    <<[class |-> Uppercase, times |-> 2], [class |-> {"-"}, times |-> 1],
      [class |-> Digits, times |-> 2], [class |-> {"-"}, times |-> 1],
      [class |-> Digits, times |-> 6], [class |-> {"-"}, times |-> 1],
      [class |-> {"A", "H", "C", "F", "M"}, times |-> 1]>>

\* re.match(pattern, s): the number of characters the pattern consumes from the
\* start of s, or -1 when s does not begin with a match
RECURSIVE ReMatch(_, _)
ReMatch(pattern, s) ==
    IF pattern = <<>> THEN 0
    ELSE LET item == Head(pattern)
         IN  IF /\ Len(s) >= item.times
                /\ \A j \in 1..item.times : s[j] \in item.class
             THEN LET rest == ReMatch(Tail(pattern),
                                      SubSeq(s, item.times + 1, Len(s)))
                  IN  IF rest < 0 THEN -1 ELSE item.times + rest
             ELSE -1

\* validate_policy_number accepting only a match of the whole string
ValidatePolicyNumber_FullMatch(policy_number) ==
    ReMatch(PolicyNumberPattern, policy_number) = Len(policy_number)

\* validate_policy_number
ValidatePolicyNumber(policy_number) ==
    ReMatch(PolicyNumberPattern, policy_number) >= 0

----------------------------------------------------------------------------

\* calculate_flood_risk_score: the points for the prior claims
PriorClaimsPoints(prior_claims) == Min(prior_claims * 5, 20)

\* calculate_flood_risk_score; distance_to_water in hundredths of a mile
CalculateFloodRiskScore(property_data) ==
    LET elevation == Get(property_data, "elevation", 100)
        distance == Get(property_data, "distance_to_water", 1000)
        flood_zone == Get(property_data, "flood_zone", "X")
        prior_claims == Get(property_data, "prior_claims", 0)
        s1 == IF elevation < 10 THEN 40
              ELSE IF elevation < 50 THEN 20
              ELSE IF elevation < 100 THEN 10
              ELSE 0
        s2 == IF distance < 10 THEN s1 + 30
              ELSE IF distance < 50 THEN s1 + 20
              ELSE IF distance < 100 THEN s1 + 10
              ELSE s1
        s3 == IF flood_zone \in {"A", "AE", "AH", "AO"} THEN s2 + 25
              ELSE IF flood_zone \in {"B", "X500"} THEN s2 + 10
              ELSE s2
        score == s3 + PriorClaimsPoints(prior_claims)
        category == IF score >= 70 THEN "EXTREME"
                    ELSE IF score >= 40 THEN "HIGH"
                    ELSE IF score >= 20 THEN "MODERATE"
                    ELSE "LOW"
    IN  <<score, category>>

----------------------------------------------------------------------------

(* data/policy_calculator.py: the PolicyHolder and the premium functions.    *)
(* A float is kept as the exact fraction of its decimal value, in lowest    *)
(* terms; a datetime is a record of its calendar fields and its day number  *)
(* ord on the clock.                                                        *)

RECURSIVE Gcd(_, _)
Gcd(a, b) == IF b = 0 THEN a ELSE Gcd(b, a % b)

\* the decimal n/d as a float
Dec(n, d) == LET g == Gcd(n, d) IN Ratio(n \div g, d \div g)

\* float multiplication
Times(x, y) ==
    LET g1 == Gcd(x.num, y.den)
        g2 == Gcd(y.num, x.den)
    IN  Dec((x.num \div g1) * (y.num \div g2), (x.den \div g2) * (y.den \div g1))

\* 1 + x and 1 - x on floats
OnePlus(x) == Dec(x.den + x.num, x.den)
OneMinus(x) == Dec(x.den - x.num, x.den)

\* x >= y on floats
AtLeast(x, y) == x.num * y.den >= y.num * x.den

\* round(x, 2) for x >= 0: to the nearest cent, a half to the even cent
Round2(x) ==
    LET n == x.num * 100
        q == n \div x.den
        r == n % x.den
    IN  Dec(IF 2 * r > x.den \/ (2 * r = x.den /\ q % 2 = 1) THEN q + 1 ELSE q, 100)

PREMIUM_FACTORS ==
    [HOME |->
        [base_rate |-> Dec(500, 1),
         age_factors |-> ("0-5" :> Dec(10, 10) @@ "6-15" :> Dec(11, 10) @@
                          "16-30" :> Dec(12, 10) @@ "31+" :> Dec(13, 10)),
         construction_types |-> ("FRAME" :> Dec(10, 10) @@ "MASONRY" :> Dec(9, 10) @@
                                 "FIRE_RESISTANT" :> Dec(8, 10)),
         location_factors |-> ("LOW_RISK" :> Dec(8, 10) @@ "MEDIUM_RISK" :> Dec(10, 10) @@
                               "HIGH_RISK" :> Dec(15, 10) @@ "COASTAL" :> Dec(17, 10))],
     AUTO |->
        [base_rate |-> Dec(800, 1),
         vehicle_age_factors |-> ("0-2" :> Dec(13, 10) @@ "3-5" :> Dec(10, 10) @@
                                  "6-10" :> Dec(9, 10) @@ "11+" :> Dec(8, 10)),
         driver_age_factors |-> ("16-25" :> Dec(18, 10) @@ "26-40" :> Dec(10, 10) @@
                                 "41-65" :> Dec(9, 10) @@ "66+" :> Dec(11, 10)),
         safe_driver_discount |-> Dec(15, 100),
         accident_surcharge |-> Dec(25, 100)]]

\* PolicyHolder.__init__
NewPolicyHolder(name, address, dob, credit_score, claim_history) ==
    [name |-> name, address |-> address, dob |-> dob,
     credit_score |-> Max(300, Min(850, credit_score)),
     claim_history |-> claim_history,    \* `claim_history or []`: a list
     policies |-> <<>>]

\* PolicyHolder.get_age, today being datetime.now()
GetAge(h, today) ==
    LET age == today.year - h.dob.year
    IN  IF today.month < h.dob.month
           \/ (today.month = h.dob.month /\ today.day < h.dob.day)
        THEN age - 1
        ELSE age

\* get_risk_factor: the claims of the history dated in the last 3*365 days
RecentClaims(h, today) ==
    SelectSeq(h.claim_history, LAMBDA claim : claim.date.ord >= today.ord - 3 * 365)

\* the credit adjustment with the tiers starting above 750 and 650
CreditAdjusted_StrictTiers(risk, credit_score) ==
    IF credit_score > 750 THEN Times(risk, Dec(85, 100))
    ELSE IF credit_score > 650 THEN Times(risk, Dec(95, 100))
    ELSE IF credit_score < 600 THEN Times(risk, Dec(12, 10))
    ELSE risk

\* get_risk_factor: the adjustment for the credit score
CreditAdjusted(risk, credit_score) ==
    IF credit_score >= 750 THEN Times(risk, Dec(85, 100))
    ELSE IF credit_score >= 650 THEN Times(risk, Dec(95, 100))
    ELSE IF credit_score < 600 THEN Times(risk, Dec(12, 10))
    ELSE risk

\* PolicyHolder.get_risk_factor
GetRiskFactor(h, today) ==
    LET risk == CreditAdjusted(Dec(1, 1), h.credit_score)
        recent == Len(RecentClaims(h, today))
    IN  IF recent > 0 THEN Times(risk, Dec(10 + recent, 10)) ELSE risk

\* the property age bands with exclusive upper boundaries
HomeAgeFactor_ExclusiveBands(property_age) ==
    LET age_factors == PREMIUM_FACTORS.HOME.age_factors
    IN  IF property_age < 5 THEN age_factors["0-5"]
        ELSE IF property_age < 15 THEN age_factors["6-15"]
        ELSE IF property_age < 30 THEN age_factors["16-30"]
        ELSE age_factors["31+"]

\* calculate_home_premium: the property age factor
HomeAgeFactor(property_age) ==
    LET age_factors == PREMIUM_FACTORS.HOME.age_factors
    IN  IF property_age <= 5 THEN age_factors["0-5"]
        ELSE IF property_age <= 15 THEN age_factors["6-15"]
        ELSE IF property_age <= 30 THEN age_factors["16-30"]
        ELSE age_factors["31+"]

\* calculate_home_premium before the rounding; property_value in dollars
HomePremium(property_value, property_age, construction_type, location_risk, h, today) ==
    LET factors == PREMIUM_FACTORS.HOME
        p1 == Times(factors.base_rate, Times(Dec(property_value, 100000), Dec(9, 10)))
        p2 == Times(p1, HomeAgeFactor(property_age))
        p3 == Times(p2, Get(factors.construction_types, construction_type, Dec(1, 1)))
        p4 == Times(p3, Get(factors.location_factors, location_risk, Dec(1, 1)))
    IN  Times(p4, GetRiskFactor(h, today))

\* calculate_home_premium
CalculateHomePremium(property_value, property_age, construction_type, location_risk, h, today) ==
    Round2(HomePremium(property_value, property_age, construction_type,
                       location_risk, h, today))

\* calculate_auto_premium: the vehicle age factor
VehicleAgeFactor(vehicle_age) ==
    LET vehicle_age_factors == PREMIUM_FACTORS.AUTO.vehicle_age_factors
    IN  IF vehicle_age <= 2 THEN vehicle_age_factors["0-2"]
        ELSE IF vehicle_age <= 5 THEN vehicle_age_factors["3-5"]
        ELSE IF vehicle_age <= 10 THEN vehicle_age_factors["6-10"]
        ELSE vehicle_age_factors["11+"]

\* calculate_auto_premium: the driver age factor
DriverAgeFactor(driver_age) ==
    LET driver_age_factors == PREMIUM_FACTORS.AUTO.driver_age_factors
    IN  IF driver_age <= 25 THEN driver_age_factors["16-25"]
        ELSE IF driver_age <= 40 THEN driver_age_factors["26-40"]
        ELSE IF driver_age <= 65 THEN driver_age_factors["41-65"]
        ELSE driver_age_factors["66+"]

\* calculate_auto_premium before the rounding; vehicle_value in dollars
AutoPremium(vehicle_value, vehicle_age, is_safe_driver, has_accidents, h, today) ==
    LET factors == PREMIUM_FACTORS.AUTO
        p1 == Times(factors.base_rate, Times(Dec(vehicle_value, 20000), Dec(8, 10)))
        p2 == Times(p1, VehicleAgeFactor(vehicle_age))
        p3 == Times(p2, DriverAgeFactor(GetAge(h, today)))
        p4 == IF is_safe_driver THEN Times(p3, OneMinus(factors.safe_driver_discount))
                                ELSE p3
        p5 == IF has_accidents THEN Times(p4, OnePlus(factors.accident_surcharge))
                               ELSE p4
    IN  Times(p5, GetRiskFactor(h, today))

\* calculate_auto_premium
CalculateAutoPremium(vehicle_value, vehicle_age, is_safe_driver, has_accidents, h, today) ==
    Round2(AutoPremium(vehicle_value, vehicle_age, is_safe_driver, has_accidents,
                       h, today))

----------------------------------------------------------------------------

(* Actions *)

Config == <<auto_assignment, adjusters, fraud_thresholds, policy_holder, returned>>

\* the notes of all claims together
RECURSIVE TotalNotes(_)
TotalNotes(cs) == IF cs = <<>> THEN 0 ELSE Len(Head(cs).notes) + TotalNotes(Tail(cs))

\* the audit trails can still grow
Room == TotalNotes(claims) < MaxNotes

\* time passes
Tick ==
    /\ now < MaxTime
    /\ now' = now + 1
    /\ UNCHANGED <<claims, Config>>

\* ClaimsProcessor.create_claim
create_claim(policy_number, claim_type, incident_date, reported_date, claimant_info, estimated_value) ==
    /\ claims' = CreateClaim(claims, policy_number, claim_type, incident_date,
                             reported_date, claimant_info, estimated_value, now)
    /\ UNCHANGED <<Config, now>>

\* ClaimsProcessor.update_claim_status
update_claim_status(claim_id, new_status, updated_by) ==
    /\ claims' = UpdateClaimStatus(claims, claim_id, new_status, updated_by, now)
    /\ UNCHANGED <<Config, now>>

\* ClaimsProcessor.assign_claim
assign_claim(claim_id, adjuster_id, updated_by) ==
    /\ claims' = AssignClaim(claims, claim_id, adjuster_id, updated_by, now)
    /\ UNCHANGED <<Config, now>>

\* ClaimsProcessor.calculate_settlement
calculate_settlement(claim_id, damages, deductible, coverage_limit) ==
    /\ claims' = SettlementClaims(claims, GetClaim(claims, claim_id), damages,
                                  deductible, coverage_limit, now)
    /\ UNCHANGED <<Config, now>>

\* ClaimsProcessor.flag_for_investigation
flag_for_investigation(claim_id, reason, flagged_by) ==
    /\ claims' = FlagForInvestigation(claims, claim_id, reason, flagged_by, now)
    /\ UNCHANGED <<Config, now>>

\* ClaimsProcessor.close_claim
close_claim(claim_id, resolution, closed_by) ==
    /\ claims' = CloseClaim(claims, claim_id, resolution, closed_by, now)
    /\ UNCHANGED <<Config, now>>

(* Calls of the Claim methods on a stored claim (the object create_claim and *)
(* get_claim hand out), at position i of the map                            *)

\* Claim.update_status
claim_update_status(i, new_status, updated_by) ==
    /\ claims' = [claims EXCEPT ![i] = UpdateStatus(@, new_status, updated_by, now)]
    /\ UNCHANGED <<Config, now>>

\* Claim.assign_adjuster
claim_assign_adjuster(i, adjuster_id, updated_by) ==
    /\ claims' = [claims EXCEPT ![i] = AssignAdjuster(@, adjuster_id, updated_by, now)]
    /\ UNCHANGED <<Config, now>>

\* Claim.add_document
claim_add_document(i, document, uploaded_by) ==
    /\ claims' = [claims EXCEPT ![i] = AddDocument(@, document[1], document[2],
                                                   document[3], uploaded_by, now)]
    /\ UNCHANGED <<Config, now>>

\* Claim.add_note
claim_add_note(i, content, created_by) ==
    /\ claims' = [claims EXCEPT ![i] = AddNote(@, content, created_by, now)]
    /\ UNCHANGED <<Config, now>>

\* Claim.update_value
claim_update_value(i, new_value, is_estimate, updated_by) ==
    /\ claims' = [claims EXCEPT ![i] = UpdateValue(@, new_value, is_estimate,
                                                   updated_by, now)]
    /\ UNCHANGED <<Config, now>>

\* Claim.verify_coverage
claim_verify_coverage(i, is_covered, reason, verified_by) ==
    /\ claims' = [claims EXCEPT ![i] = VerifyCoverage(@, is_covered, reason,
                                                      verified_by, now)]
    /\ UNCHANGED <<Config, now>>

\* Claim.check_compliance_status
check_compliance_status(i) ==
    /\ claims' = [claims EXCEPT ![i] = CheckComplianceClaim(@, now)]
    /\ UNCHANGED <<Config, now>>

\* ClaimsProcessor.get_compliance_report: it calls check_compliance_status on
\* every stored claim
get_compliance_report ==
    /\ claims' = [i \in 1..Len(claims) |-> CheckComplianceClaim(claims[i], now)]
    /\ UNCHANGED <<Config, now>>

----------------------------------------------------------------------------
\* ClaimsProcessor.get_claims_by_status: a list comprehension over the map
get_claims_by_status(status) ==
    /\ GetClaimsByStatus(claims, status) \in Seq(1..Len(claims))
    /\ UNCHANGED vars

\* ClaimsProcessor.get_claims_by_adjuster
get_claims_by_adjuster(adjuster_id) ==
    /\ GetClaimsByAdjuster(claims, adjuster_id) \in Seq(1..Len(claims))
    /\ UNCHANGED vars

\* ClaimsProcessor.get_claims_by_policy
get_claims_by_policy(policy_number) ==
    /\ GetClaimsByPolicy(claims, policy_number) \in Seq(1..Len(claims))
    /\ UNCHANGED vars

----------------------------------------------------------------------------

(* Calls of policy_calculator.py *)

\* datetime.now() in policy_calculator.py: day 0 of the clock is 15 June 2024
Today == [year |-> 2024, month |-> 6, day |-> 15, ord |-> 0]

\* dates of birth: 25 today, 25 until tomorrow, 40, 65
BirthDates ==
    {[year |-> 1999, month |-> 6, day |-> 15, ord |-> -9132],
     [year |-> 1998, month |-> 6, day |-> 16, ord |-> -9496],
     [year |-> 1984, month |-> 1, day |-> 1, ord |-> -14776],
     [year |-> 1958, month |-> 12, day |-> 31, ord |-> -23908]}

\* histories: no claim, one claim 3*365 + 1 days ago, and two claims, 100
\* days and 3*365 days ago
ClaimHistories ==
    {<<>>,
     <<[date |-> [year |-> 2021, month |-> 6, day |-> 15, ord |-> -(3 * 365) - 1]]>>,
     <<[date |-> [year |-> 2024, month |-> 3, day |-> 7, ord |-> -100]],
       [date |-> [year |-> 2021, month |-> 6, day |-> 16, ord |-> -(3 * 365)]]>>}

\* credit scores given to the constructor, inside and outside 300..850
CreditScores == {0, 299, 300, 599, 600, 649, 650, 749, 750, 850, 851}

PropertyAges == {0, 5, 6, 15, 16, 30, 31}
ConstructionTypes == {"MASONRY", "LOG"}
LocationRisks == {"COASTAL", "UNKNOWN"}
VehicleAges == {0, 2, 3, 5, 6, 10, 11}

\* PolicyHolder.__init__
policy_holder_init(dob, credit_score, claim_history) ==
    /\ policy_holder' = <<NewPolicyHolder("Pat", "1 Main St", dob, credit_score,
                                          claim_history)>>
    /\ UNCHANGED <<claims, auto_assignment, adjusters, fraud_thresholds, now, returned>>

\* PolicyHolder.get_risk_factor
get_risk_factor ==
    /\ policy_holder /= <<>>
    /\ returned' = [call |-> "get_risk_factor", args |-> <<>>,
                    value |-> GetRiskFactor(policy_holder[1], Today)]
    /\ UNCHANGED <<claims, auto_assignment, adjusters, fraud_thresholds, now, policy_holder>>

\* calculate_home_premium
calculate_home_premium(property_value, property_age, construction_type, location_risk) ==
    /\ policy_holder /= <<>>
    /\ returned' = [call |-> "calculate_home_premium",
                    args |-> <<property_value, property_age, construction_type,
                               location_risk>>,
                    value |-> CalculateHomePremium(property_value, property_age,
                                  construction_type, location_risk, policy_holder[1], Today)]
    /\ UNCHANGED <<claims, auto_assignment, adjusters, fraud_thresholds, now, policy_holder>>

\* calculate_auto_premium
calculate_auto_premium(vehicle_value, vehicle_age, is_safe_driver, has_accidents) ==
    /\ policy_holder /= <<>>
    /\ returned' = [call |-> "calculate_auto_premium",
                    args |-> <<vehicle_value, vehicle_age, is_safe_driver, has_accidents>>,
                    value |-> CalculateAutoPremium(vehicle_value, vehicle_age,
                                  is_safe_driver, has_accidents, policy_holder[1], Today)]
    /\ UNCHANGED <<claims, auto_assignment, adjusters, fraud_thresholds, now, policy_holder>>

----------------------------------------------------------------------------

(* Calls of the module-level functions of claims_processor.py *)

\* the example of the documentation, as characters
ValidNumber == <<"C", "A", "-", "2", "3", "-", "1", "2", "3", "4", "5", "6", "-", "H">>

\* policy numbers: the example, the example with one character replaced, cut
\* short, or followed by more characters, and the two invalid examples
PolicyNumbers ==
    {ValidNumber}
    \cup {[ValidNumber EXCEPT ![i] = ch] :
              i \in 1..Len(ValidNumber), ch \in {"a", "Z", "7", "-", "M", "x", "H", " "}}
    \cup {SubSeq(ValidNumber, 1, n) : n \in 0..(Len(ValidNumber) - 1)}
    \cup {ValidNumber \o more : more \in {<<"X">>, <<"-", "1">>, <<" ">>}}
    \cup {<<"C", "A", "-", "2", "3", "-", "1", "2", "3", "4", "5", "-", "H">>,
          <<"c", "a", "-", "2", "3", "-", "1", "2", "3", "4", "5", "6", "-", "H">>}

\* a dict with the key when a value is given
Entry(key, values) == {<<>>} \cup {key :> v : v \in values}

\* property_data: each key present or not
PropertyData ==
    {e @@ d @@ z @@ p :
        e \in Entry("elevation", {5, 10, 49, 50, 99, 100}),
        d \in Entry("distance_to_water", {5, 10, 49, 50, 99, 100}),
        z \in Entry("flood_zone", {"A", "AO", "B", "X500", "X"}),
        p \in Entry("prior_claims", {0, 1, 4, 5})}

\* validate_policy_number
validate_policy_number(policy_number) ==
    /\ returned' = [call |-> "validate_policy_number", args |-> <<policy_number>>,
                    value |-> ValidatePolicyNumber(policy_number)]
    /\ UNCHANGED <<claims, auto_assignment, adjusters, fraud_thresholds, now, policy_holder>>

\* calculate_flood_risk_score
calculate_flood_risk_score(property_data) ==
    /\ returned' = [call |-> "calculate_flood_risk_score", args |-> <<property_data>>,
                    value |-> CalculateFloodRiskScore(property_data)]
    /\ UNCHANGED <<claims, auto_assignment, adjusters, fraud_thresholds, now, policy_holder>>

----------------------------------------------------------------------------

\* time passes, once: days at a time
Wait(days) ==
    /\ now < MaxTime
    /\ now' = now + days
    /\ UNCHANGED <<claims, Config>>

----------------------------------------------------------------------------

(* Specifications *)

\* the calls of the ClaimsProcessor
CallProcessor ==
    \/ \E p \in Policies, ty \in ClaimTypes, inc \in IncidentDates :
           /\ Len(claims) < MaxClaims
           /\ create_claim(p, ty, inc, -1, [state |-> "CA"], 50000)
    \/ \E id \in ClaimIdInputs, s \in StatusInputs, u \in Users :
           update_claim_status(id, s, u)
    \/ \E id \in ClaimIdInputs, a \in AdjusterInputs, u \in Users :
           assign_claim(id, a, u)
    \/ \E id \in ClaimIdInputs, d \in DamagesInputs, terms \in SettlementTerms :
           calculate_settlement(id, d, terms[1], terms[2])
    \/ \E id \in ClaimIdInputs, r \in UserReasons, u \in Users :
           flag_for_investigation(id, r, u)
    \/ \E id \in ClaimIdInputs, r \in Resolutions, u \in Users :
           close_claim(id, r, u)

\* the calls of the Claim methods, on the stored claims
CallClaim ==
    \/ \E i \in 1..Len(claims), s \in StatusInputs, u \in Users :
           claim_update_status(i, s, u)
    \/ \E i \in 1..Len(claims), a \in AdjusterInputs, u \in Users :
           claim_assign_adjuster(i, a, u)
    \/ \E i \in 1..Len(claims), d \in DocumentInputs, u \in Users :
           claim_add_document(i, d, u)
    \/ \E i \in 1..Len(claims), n \in NoteInputs, u \in Users :
           claim_add_note(i, n, u)
    \/ \E i \in 1..Len(claims), v \in ValueInputs, e \in BOOLEAN, u \in Users :
           claim_update_value(i, v, e, u)
    \/ \E i \in 1..Len(claims), b \in BOOLEAN, r \in CoverageReasons, u \in Users :
           claim_verify_coverage(i, b, r, u)

\* every operation of the processor and of its claims, while the trails have room
Next == Room /\ (CallProcessor \/ CallClaim)

\* a processor whose table holds a fraud investigator, with and without
\* automatic assignment
InitCalls == InitWith({WithFraudKey}, {TRUE, FALSE}, {2})

Spec == InitCalls /\ [][Next]_vars

\* the operations of the ClaimsProcessor only
NextProcessor == Room /\ CallProcessor

SpecProcessor == Init /\ [][NextProcessor]_vars

\* the life of one claim under a running clock: it is created, then its methods
\* are called
InitClaim == InitWith({WithFraudKey}, {FALSE}, {2})

NextClaim ==
    \/ Tick
    \/ /\ claims = <<>>
       /\ \E inc \in IncidentDates, rd \in ReportedDates :
              create_claim("CA-23-123456-H", "AUTO", inc, rd,
                           [state |-> "CA"], 50000)
    \/ TotalNotes(claims) < MaxTrail /\ CallClaim

SpecClaim == InitClaim /\ [][NextClaim]_vars

\* creations on two policies under several thresholds; a claim may be closed
InitCreate ==
    InitWith({NoAdjusters, TwoAutoAdjusters, WithFraudKey}, {TRUE, FALSE}, {1, 2, 3})

NextCreate ==
    /\ Len(claims) < MaxCreated
    /\ \/ \E p \in Policies, inc \in IncidentDates :
              create_claim(p, "AUTO", inc, -1, [state |-> "CA"], 50000)
       \/ \E id \in 1..Len(claims), r \in Resolutions, u \in Users :
              claims[id].status /= "CLOSED" /\ close_claim(id, r, u)

SpecCreate == InitCreate /\ [][NextCreate]_vars

\* creations with auto-assignment; the newest claim may be handed to another
\* adjuster once, and a claim may be closed
InitAssign == InitWith({TwoAutoAdjusters, FraudAmongAuto}, {TRUE}, {3})

NextAssign ==
    /\ Len(claims) < MaxCreated
    /\ \/ \E ty \in ClaimTypes, inc \in IncidentDates :
              create_claim("CA-23-123456-H", ty, inc, -1,
                           [state |-> "CA"], 50000)
       \/ \E a \in AdjusterInputs, u \in Users :
              /\ claims /= <<>>
              /\ Last(Last(claims).notes).created_by = SYSTEM
              /\ Last(claims).assigned_adjuster /= a
              /\ assign_claim(Len(claims), a, u)
       \/ \E id \in 1..Len(claims), r \in Resolutions, u \in Users :
              claims[id].status /= "CLOSED" /\ close_claim(id, r, u)

SpecAssign == InitAssign /\ [][NextAssign]_vars

\* processors configured with their own fraud thresholds and adjuster profiles:
\* config['fraud_thresholds'] replaces the default dict as a whole
OwnThresholds ==
    {Thresholds(2),
     [multiple_claims |-> 2],
     [time_to_report |-> 30, value_threshold |-> 50000]}

InitConfig ==
    /\ claims = <<>>
    /\ auto_assignment \in {TRUE, FALSE}
    /\ adjusters \in {NoAdjusters, WithFraudSpecialist}
    /\ fraud_thresholds \in OwnThresholds
    /\ now = 0
    /\ policy_holder = <<>>
    /\ returned = NoCall

\* the claim at position i was flagged by a user
UserFlagged(i) ==
    \E k \in 1..Len(claims[i].notes) :
        /\ claims[i].notes[k].content[1] = "Flagged for investigation"
        /\ claims[i].notes[k].created_by \in Users

NextConfig ==
    \/ \E p \in Policies, inc \in IncidentDates, rd \in ReportedDates,
          info \in ClaimantInfos, v \in EstimatedValues :
           /\ Len(claims) < MaxClaims
           /\ create_claim(p, "AUTO", inc, rd, info, v)
    \/ \E id \in 1..Len(claims), r \in UserReasons, u \in Users :
           /\ ~UserFlagged(id)
           /\ flag_for_investigation(id, r, u)

SpecConfig == InitConfig /\ [][NextConfig]_vars

\* claims of several states are reported, documented and handled, and their
\* compliance is checked
InitCompliance == InitWith({NoAdjusters}, {FALSE}, {3})

NextCompliance ==
    \/ \E inc \in RecentIncidentDates, info \in Claimants :
           /\ Len(claims) < MaxClaims
           /\ create_claim("CA-23-123456-H", "AUTO", inc, 0, info, 50000)
    \/ /\ TotalNotes(claims) < MaxFiled
       /\ \/ \E i \in 1..Len(claims), d \in DocumentInputs, u \in Users :
                 claim_add_document(i, d, u)
          \/ \E i \in 1..Len(claims), s \in HandlingStatuses, u \in Users :
                 claim_update_status(i, s, u)
    \/ \E i \in 1..Len(claims) : check_compliance_status(i)
    \/ get_compliance_report

SpecCompliance == InitCompliance /\ [][NextCompliance]_vars

----------------------------------------------------------------------------
\* claims are created, moved and assigned through the processor, and queried
NextQuery ==
    \/ /\ Room
       /\ \/ \E p \in Policies, ty \in ClaimTypes, inc \in IncidentDates :
                 /\ Len(claims) < MaxClaims
                 /\ create_claim(p, ty, inc, -1, [state |-> "CA"], 50000)
          \/ \E id \in ClaimIdInputs, s \in StatusInputs, u \in Users :
                 update_claim_status(id, s, u)
          \/ \E id \in ClaimIdInputs, a \in AdjusterInputs, u \in Users :
                 assign_claim(id, a, u)
    \/ \E s \in StatusInputs : get_claims_by_status(s)
    \/ \E a \in AdjusterInputs : get_claims_by_adjuster(a)
    \/ \E p \in Policies : get_claims_by_policy(p)

SpecQuery == InitCalls /\ [][NextQuery]_vars

----------------------------------------------------------------------------

\* a policy holder is constructed, then rated and quoted
NextPolicy ==
    \/ \E dob \in BirthDates, c \in CreditScores, past \in ClaimHistories :
           /\ policy_holder = <<>>
           /\ policy_holder_init(dob, c, past)
    \/ get_risk_factor
    \/ \E a \in PropertyAges, ct \in ConstructionTypes, loc \in LocationRisks :
           calculate_home_premium(200000, a, ct, loc)
    \/ \E a \in VehicleAges, safe \in BOOLEAN, acc \in BOOLEAN :
           calculate_auto_premium(30000, a, safe, acc)

SpecPolicy == InitDefault /\ [][NextPolicy]_vars

----------------------------------------------------------------------------

\* policy numbers are validated

NextNumbers == \E policy_number \in PolicyNumbers : validate_policy_number(policy_number)

SpecNumbers == InitDefault /\ [][NextNumbers]_vars

\* properties are scored for flood risk
NextFlood == \E property_data \in PropertyData : calculate_flood_risk_score(property_data)

SpecFlood == InitDefault /\ [][NextFlood]_vars

----------------------------------------------------------------------------

\* claims of both types are created on two policies, under every kind of
\* adjuster table, with and without auto-assignment; the second claim of a
\* policy is flagged
InitCandidates ==
    InitWith({NoAdjusters, TwoAutoAdjusters, WithFraudKey}, {TRUE, FALSE}, {1})

NextCandidates ==
    \E p \in Policies, ty \in ClaimTypes, inc \in IncidentDates :
        /\ Len(claims) < MaxCreated
        /\ create_claim(p, ty, inc, -1, [state |-> "CA"], 50000)

SpecCandidates == InitCandidates /\ [][NextCandidates]_vars

----------------------------------------------------------------------------

\* claims of three types are created on one policy with auto-assignment, and
\* closed; the fourth claim of the policy is flagged
InitBalance == InitWith({TwoAutoAdjusters, FraudAmongAuto}, {TRUE}, {3})

NextBalance ==
    \/ \E ty \in ClaimTypes \cup {"HOME"}, inc \in IncidentDates :
           /\ Len(claims) < MaxCreated
           /\ create_claim("CA-23-123456-H", ty, inc, -1, [state |-> "CA"], 50000)
    \/ \E id \in 1..Len(claims), r \in Resolutions, u \in Users :
           claims[id].status /= "CLOSED" /\ close_claim(id, r, u)

SpecBalance == InitBalance /\ [][NextBalance]_vars

----------------------------------------------------------------------------

\* claims are created, their coverage is verified or denied, they are moved on
\* and settled
NextSettle ==
    /\ Room
    /\ \/ \E inc \in IncidentDates :
              /\ Len(claims) < MaxClaims
              /\ create_claim("CA-23-123456-H", "AUTO", inc, -1, [state |-> "CA"], 50000)
       \/ \E i \in 1..Len(claims), b \in BOOLEAN, r \in CoverageReasons, u \in Users :
              claim_verify_coverage(i, b, r, u)
       \/ \E i \in 1..Len(claims), s \in HandlingStatuses, u \in Users :
              claim_update_status(i, s, u)
       \/ \E id \in ClaimIdInputs, d \in DamagesInputs, terms \in SettlementTerms :
              calculate_settlement(id, d, terms[1], terms[2])

SpecSettle == InitCompliance /\ [][NextSettle]_vars

----------------------------------------------------------------------------

\* a claim is created, documented, decided and reopened while 46 or 91 days
\* go by (more than every state's decision window), and its compliance is checked
NextStable ==
    \/ \E days \in {46, 91} : Wait(days)
    \/ \E inc \in RecentIncidentDates, info \in Claimants :
           /\ claims = <<>>
           /\ create_claim("CA-23-123456-H", "AUTO", inc, 0, info, 50000)
    \/ /\ TotalNotes(claims) < MaxFiled
       /\ \/ \E i \in 1..Len(claims), d \in DocumentInputs, u \in Users :
                 claim_add_document(i, d, u)
          \/ \E i \in 1..Len(claims), s \in {"APPROVED", "REOPENED"}, u \in Users :
                 claim_update_status(i, s, u)
    \/ \E i \in 1..Len(claims) : check_compliance_status(i)

SpecStable == InitCompliance /\ [][NextStable]_vars

----------------------------------------------------------------------------

(* Properties *)

\* new extends old by at least one element and keeps old as its prefix
Extends(old, new) == Len(new) > Len(old) /\ SubSeq(new, 1, Len(old)) = old

\* the nine status codes of the specification
NineStatuses ==
    {"NEW", "ASSIGNED", "INVESTIGATING", "PENDING_INFO", "APPROVED",
     "PARTIAL_APPROVED", "DENIED", "CLOSED", "REOPENED"}

\* claim ids the processor never issued
UnknownIds == {0, Len(claims) + 1}

\* C1 (as claimed): whenever flag_for_investigation returns True, the claim's
\* status afterwards is INVESTIGATING, whatever its prior status and adjuster and
\* whatever the adjuster table.
C1_FlaggedIsInvestigating ==
    \A id \in ClaimIdInputs, r \in UserReasons, u \in Users :
        FlagForInvestigationResult(claims, id) =>
            LET after == FlagForInvestigation(claims, id, r, u, now)
            IN  after[GetClaim(claims, id)].status = "INVESTIGATING"

\* C2: update_status with a code outside the nine returns False and leaves the
\* claim as it was, field for field; with one of the nine it returns True, sets
\* the status and appends exactly one note recording the old and the new status.
C2_UpdateStatus ==
    \A i \in 1..Len(claims), s \in StatusInputs, u \in Users :
        LET c == claims[i]
            after == UpdateStatus(c, s, u, now)
        IN  IF s \in NineStatuses
            THEN /\ UpdateStatusOk(s)
                 /\ after.status = s
                 /\ Len(after.notes) = Len(c.notes) + 1
                 /\ SubSeq(after.notes, 1, Len(c.notes)) = c.notes
                 /\ Last(after.notes).content = <<"Status changed", c.status, s>>
                 /\ Last(after.notes).created_by = u
            ELSE /\ ~UpdateStatusOk(s)
                 /\ after = c

\* C2 witness: a user's update_status took effect on a stored claim
C2_Witness ==
    \E i \in 1..Len(claims) :
        /\ Last(claims[i].notes).content[1] = "Status changed"
        /\ Last(claims[i].notes).created_by \in Users
        /\ claims[i].status = Last(claims[i].notes).content[3]

\* C3: the status of every stored claim is one of the nine codes, and a claim
\* as constructed has status NEW.
C3_StatusInVocabulary ==
    /\ \A i \in 1..Len(claims) : claims[i].status \in NineStatuses
    /\ \A p \in Policies, ty \in ClaimTypes, inc \in IncidentDates,
          rd \in ReportedDates, info \in ClaimantInfos, v \in EstimatedValues :
           NewClaim(Len(claims) + 1, p, ty, inc, rd, info, v, now).status = "NEW"

\* C3 witness: a claim was moved through the vocabulary and reopened
C3_Witness ==
    \E i \in 1..Len(claims) :
        /\ claims[i].status = "REOPENED"
        /\ claims[i].notes[1].content = <<"Claim created">>

\* the claim map after a create_claim of type ty on policy p
Created(cs, p, ty, inc) == CreateClaim(cs, p, ty, inc, -1, [state |-> "CA"], 50000, now)

\* the claims a Claim method leaves behind when called on the claim at i
ClaimMethodResults(i) ==
    LET c == claims[i]
    IN  {UpdateStatus(c, s, u, now) : s \in NineStatuses, u \in Users}
        \cup {AssignAdjuster(c, a, u, now) : a \in AdjusterInputs, u \in Users}
        \cup {AddDocument(c, d[1], d[2], d[3], u, now) : d \in DocumentInputs, u \in Users}
        \cup {AddNote(c, n, u, now) : n \in NoteInputs, u \in Users}
        \cup {UpdateValue(c, v, TRUE, u, now) : v \in ValueInputs, u \in Users}
        \cup {UpdateValue(c, v, FALSE, u, now) : v \in ValueInputs, u \in Users}
        \cup {VerifyCoverage(c, TRUE, r, u, now) : r \in CoverageReasons, u \in Users}
        \cup {VerifyCoverage(c, FALSE, r, u, now) : r \in CoverageReasons, u \in Users}

\* the stored claims as a processor call leaves them: a call on an issued claim
\* id, or a create_claim (which adds one more claim at the end)
ProcessorResults(id) ==
    {UpdateClaimStatus(claims, id, s, u, now) : s \in StatusInputs, u \in Users}
    \cup {AssignClaim(claims, id, a, u, now) : a \in AdjusterInputs, u \in Users}
    \cup {SettlementClaims(claims, GetClaim(claims, id), d, terms[1], terms[2], now) :
              d \in DamagesInputs, terms \in SettlementTerms}
    \cup {FlagForInvestigation(claims, id, r, u, now) : r \in UserReasons, u \in Users}
    \cup {CloseClaim(claims, id, r, u, now) : r \in Resolutions, u \in Users}
    \cup {SubSeq(Created(claims, p, ty, inc), 1, Len(claims)) :
              p \in Policies, ty \in ClaimTypes, inc \in IncidentDates}

\* C4: each of the six mutating Claim methods, when it succeeds, appends at
\* least one note and sets last_updated to the time of the call; and no
\* operation, of the claim or of the processor, drops, reorders or rewrites a
\* note that is already in the trail.
C4_AuditTrail ==
    \A i \in 1..Len(claims) :
        /\ \A after \in ClaimMethodResults(i) :
               /\ Extends(claims[i].notes, after.notes)
               /\ after.last_updated = now
        /\ \A after \in ProcessorResults(claims[i].claim_id) :
               /\ Len(after) = Len(claims)
               /\ \A j \in 1..Len(claims) :
                      SubSeq(after[j].notes, 1, Len(claims[j].notes)) = claims[j].notes

\* C4 witness: a method call after the clock moved on left its note at the end
\* of the trail and its time in last_updated
C4_Witness ==
    \E i \in 1..Len(claims) :
        /\ Len(claims[i].notes) >= 2
        /\ claims[i].notes[1].content = <<"Claim created">>
        /\ Last(claims[i].notes).timestamp > claims[i].notes[1].timestamp
        /\ claims[i].last_updated = Last(claims[i].notes).timestamp

\* the multiple-claims threshold in force
T == fraud_thresholds.multiple_claims

\* the rank of the claim at i among the stored claims of its policy
PolicyRank(i) ==
    Cardinality({j \in 1..i : claims[j].policy_number = claims[i].policy_number})

\* the claim at i carries a note with this content
HasNote(i, content) ==
    \E k \in 1..Len(claims[i].notes) : claims[i].notes[k].content = content

\* the trail of the claim at i shows create_claim flagging it: a transition to
\* INVESTIGATING by SYSTEM, followed by the flag note with this reason
AutoFlagged(i, reason) ==
    \E k \in 2..Len(claims[i].notes) :
        /\ claims[i].notes[k].content = <<"Flagged for investigation", reason>>
        /\ claims[i].notes[k].created_by = SYSTEM
        /\ claims[i].notes[k - 1].content[1] = "Status changed"
        /\ claims[i].notes[k - 1].content[3] = "INVESTIGATING"
        /\ claims[i].notes[k - 1].created_by = SYSTEM

Candidates(claim_type) ==
    IF \E k \in 1..Len(adjusters) : claim_type \in adjusters[k].specializations
    THEN SelectSeq(adjusters, LAMBDA adj : claim_type \in adj.specializations)
    ELSE adjusters

\* the number of stored claims, of any status, assigned to an adjuster
Assigned(cs, adj_id) ==
    Cardinality({j \in 1..Len(cs) : cs[j].assigned_adjuster = adj_id})

\* the adjuster the auto-assignment gave a newly created claim: its third note
AutoAssignee(c) == c.notes[3].content[2]

\* create_claim picked, for its new claim, the first least-loaded candidate
PicksFirstLeastLoaded(new, cands) ==
    /\ new.notes[3].content[1] = "Assigned"
    /\ \E k \in 1..Len(cands) :
           /\ cands[k].id = AutoAssignee(new)
           /\ \A j \in 1..Len(cands) :
                  Assigned(claims, cands[k].id) <= Assigned(claims, cands[j].id)
           /\ \A j \in 1..(k - 1) :
                  Assigned(claims, cands[j].id) > Assigned(claims, cands[k].id)

\* two candidates, neither with a claim
TwoIdle(cands) ==
    /\ Len(cands) = 2
    /\ Assigned(claims, cands[1].id) = 0
    /\ Assigned(claims, cands[2].id) = 0

\* C6 (as claimed): with auto-assignment on and adjusters configured,
\* create_claim assigns the new claim to a candidate with the fewest assigned
\* claims, the first such in table order; so of two candidates without claims
\* the first gets the first new claim and the other the next one.
C6_AsClaimed ==
    \A p \in Policies, ty \in ClaimTypes, inc \in IncidentDates :
        (auto_assignment /\ adjusters /= <<>>) =>
            LET cands == Candidates(ty)
                after == Created(claims, p, ty, inc)
            IN  /\ PicksFirstLeastLoaded(Last(after), cands)
                /\ TwoIdle(cands) =>
                       /\ AutoAssignee(Last(after)) = cands[1].id
                       /\ AutoAssignee(Last(Created(after, p, ty, inc))) = cands[2].id

\* C6 (amended): create_claim assigns the new claim to the first least-loaded
\* candidate; of two candidates without claims the first gets the first new
\* claim, and the other gets the next one provided that the first claim is
\* still with the first candidate when the next one is created.
C6_LeastLoaded ==
    \A p \in Policies, ty \in ClaimTypes, inc \in IncidentDates :
        (auto_assignment /\ adjusters /= <<>>) =>
            LET cands == Candidates(ty)
                after == Created(claims, p, ty, inc)
            IN  /\ PicksFirstLeastLoaded(Last(after), cands)
                /\ TwoIdle(cands) =>
                       /\ AutoAssignee(Last(after)) = cands[1].id
                       /\ Last(after).assigned_adjuster = cands[1].id
                              => AutoAssignee(Last(Created(after, p, ty, inc)))
                                     = cands[2].id

\* C6 witness: two AUTO claims were created under two idle AUTO adjusters; the
\* first went to the first of the table, the second to the other
C6_Witness ==
    /\ auto_assignment
    /\ adjusters = TwoAutoAdjusters
    /\ Len(claims) >= 2
    /\ claims[1].claim_type = "AUTO"
    /\ claims[2].claim_type = "AUTO"
    /\ AutoAssignee(claims[1]) = "ADJ2"
    /\ AutoAssignee(claims[2]) = "ADJ1"

\* C7: calculate_settlement on a stored claim whose coverage is not verified
\* returns success = false, error 'Coverage not verified', settlement_amount 0
\* and total_damages = the sum of the damages, and changes nothing.
C7_CoverageNotVerified ==
    \A id \in 1..Len(claims), d \in DamagesInputs, terms \in SettlementTerms :
        LET i == GetClaim(claims, id)
            result == SettlementResult(claims, i, d, terms[1], terms[2])
        IN  ~claims[id].coverage_verified =>
                /\ result.success = FALSE
                /\ result.error = "Coverage not verified"
                /\ result.settlement_amount = 0
                /\ result.total_damages = SumSeq(d)
                /\ SettlementClaims(claims, i, d, terms[1], terms[2], now) = claims

\* C7 witness: a stored claim without verified coverage that has a history
C7_Witness ==
    \E i \in 1..Len(claims) :
        /\ ~claims[i].coverage_verified
        /\ Len(claims[i].notes) >= 2
        /\ ~SettlementResult(claims, i, <<10000>>, 1000, 5000).success

\* the settlement the specification prescribes
Clamp(total, deductible, limit) ==
    LET net == IF total - deductible < 0 THEN 0 ELSE total - deductible
    IN  IF net > limit THEN limit ELSE net

\* C8: on a claim with verified coverage calculate_settlement returns success
\* with settlement_amount = min(max(0, total - deductible), limit), stores the
\* amount as actual_value with one value-update note, and reports fully_covered
\* = (total <= amount + deductible); 10000/1000/5000 gives 5000 and false,
\* 3000/500/50000 gives 2500 and true.
C8_Settlement ==
    \A id \in 1..Len(claims), d \in DamagesInputs, terms \in SettlementTerms :
        LET i == GetClaim(claims, id)
            c == claims[i]
            total == SumSeq(d)
            amount == Clamp(total, terms[1], terms[2])
            result == SettlementResult(claims, i, d, terms[1], terms[2])
            after == SettlementClaims(claims, i, d, terms[1], terms[2], now)
        IN  c.coverage_verified =>
                /\ result.success = TRUE
                /\ result.total_damages = total
                /\ result.settlement_amount = amount
                /\ result.fully_covered = (total <= amount + terms[1])
                /\ after[i].actual_value = amount
                /\ after[i].notes =
                       Append(c.notes,
                              [content |-> <<"Value updated", "actual",
                                             c.actual_value, amount>>,
                               created_by |-> SYSTEM, timestamp |-> now])
                /\ after = [claims EXCEPT ![i] = after[i]]
                /\ after[i] = [c EXCEPT !.actual_value = amount,
                                        !.notes = after[i].notes,
                                        !.last_updated = now]
                /\ (total = 10000 /\ terms = <<1000, 5000>>)
                       => (amount = 5000 /\ ~result.fully_covered)
                /\ (total = 3000 /\ terms = <<500, 50000>>)
                       => (amount = 2500 /\ result.fully_covered)

\* C8 witness: a settlement clamped by the limit was written to a verified claim
C8_Witness ==
    \E i \in 1..Len(claims) :
        /\ claims[i].coverage_verified
        /\ claims[i].actual_value = 5000
        /\ Last(claims[i].notes).content = <<"Value updated", "actual", 0, 5000>>
        /\ Last(claims[i].notes).created_by = SYSTEM

\* C9: with a claim id the processor never issued, update_claim_status,
\* assign_claim, flag_for_investigation and close_claim return False,
\* calculate_settlement returns success = false with an error, and the claim
\* map is unchanged; assign_claim with an adjuster that is neither in the table
\* nor SYSTEM returns False and changes nothing either.
C9_NotFound ==
    /\ \A id \in UnknownIds, u \in Users :
           /\ \A s \in StatusInputs :
                  /\ ~UpdateClaimStatusResult(claims, id, s)
                  /\ UpdateClaimStatus(claims, id, s, u, now) = claims
           /\ \A a \in AdjusterInputs :
                  /\ ~AssignClaimResult(claims, id, a)
                  /\ AssignClaim(claims, id, a, u, now) = claims
           /\ \A r \in UserReasons :
                  /\ ~FlagForInvestigationResult(claims, id)
                  /\ FlagForInvestigation(claims, id, r, u, now) = claims
           /\ \A r \in Resolutions :
                  /\ ~CloseClaimResult(claims, id)
                  /\ CloseClaim(claims, id, r, u, now) = claims
           /\ \A d \in DamagesInputs, terms \in SettlementTerms :
                  LET i == GetClaim(claims, id)
                      result == SettlementResult(claims, i, d, terms[1], terms[2])
                  IN  /\ result.success = FALSE
                      /\ "error" \in DOMAIN result
                      /\ SettlementClaims(claims, i, d, terms[1], terms[2], now) = claims
    /\ \A id \in 1..Len(claims), a \in AdjusterInputs, u \in Users :
           (a /= SYSTEM /\ \A k \in 1..Len(adjusters) : adjusters[k].id /= a) =>
               /\ ~AssignClaimResult(claims, id, a)
               /\ AssignClaim(claims, id, a, u, now) = claims

\* C9 witness: claims with histories are stored, so that the unknown ids and the
\* unknown adjuster stand beside known ones
C9_Witness ==
    /\ Len(claims) = 2
    /\ adjusters /= <<>>
    /\ \E i \in 1..Len(claims) : Truthy(claims[i].assigned_adjuster)
    /\ \A id \in UnknownIds : GetClaim(claims, id) = 0

\* C10: after any sequence of processor operations every stored claim's
\* assigned_adjuster is unset, a key of the adjuster table, or 'SYSTEM'.
C10_AdjusterKnown ==
    \A i \in 1..Len(claims) :
        \/ claims[i].assigned_adjuster = None
        \/ claims[i].assigned_adjuster = SYSTEM
        \/ \E k \in 1..Len(adjusters) : adjusters[k].id = claims[i].assigned_adjuster

\* C10 witness: a claim was assigned by hand to the sentinel, then to an adjuster
\* of the table
C10_Witness ==
    \E i \in 1..Len(claims), k \in 1..Len(adjusters) :
        /\ claims[i].assigned_adjuster = adjusters[k].id
        /\ Last(claims[i].notes).content = <<"Reassigned", SYSTEM, adjusters[k].id>>
        /\ Last(claims[i].notes).created_by \in Users

\* the claims stored for a policy
OnPolicy(cs, p) == Cardinality({j \in 1..Len(cs) : cs[j].policy_number = p})

\* the trail records a transition from one status to another at position k
Transition(c, k, old, new) == c.notes[k].content = <<"Status changed", old, new>>

\* C11: with auto-assignment on and adjusters configured, a new claim that
\* exceeds the multiple-claims threshold comes back from create_claim with an
\* adjuster and status INVESTIGATING: its trail has the transition to ASSIGNED,
\* then the one to INVESTIGATING, and no status change after that.
C11_AssignedThenInvestigating ==
    \A p \in Policies, ty \in ClaimTypes, inc \in IncidentDates :
        LET after == Created(claims, p, ty, inc)
            new == Last(after)
        IN  (auto_assignment /\ adjusters /= <<>> /\ OnPolicy(after, p) > T) =>
                /\ new.assigned_adjuster /= None
                /\ \E k \in 1..Len(adjusters) : adjusters[k].id = new.assigned_adjuster
                /\ new.status = "INVESTIGATING"
                /\ \E a, b \in 1..Len(new.notes) :
                       /\ a < b
                       /\ Transition(new, a, "NEW", "ASSIGNED")
                       /\ Transition(new, b, "ASSIGNED", "INVESTIGATING")
                       /\ \A k \in (b + 1)..Len(new.notes) :
                              new.notes[k].content[1] /= "Status changed"

\* C11 witness: a stored claim was auto-assigned, then flagged by create_claim
\* and handed to the fraud investigator, and is under investigation
C11_Witness ==
    \E i \in 1..Len(claims) :
        /\ claims[i].status = "INVESTIGATING"
        /\ claims[i].notes[3].content[1] = "Assigned"
        /\ Last(claims[i].notes).content[1] = "Reassigned"
        /\ Last(claims[i].notes).created_by = SYSTEM
        /\ claims[i].assigned_adjuster = "FRD1"

\* the inputs of a create_claim: policy, type, dates, claimant, value
CreateInputs ==
    Policies \X ClaimTypes \X IncidentDates \X ReportedDates
        \X ClaimantInfos \X EstimatedValues

\* C12 (as claimed): for every claim input and every configuration create_claim
\* does not raise, stores the new claim under its id as one more claim and
\* leaves the claims stored before as they were.
C12_CreationNeverFails ==
    \A in \in CreateInputs :
        LET after == CreateClaim(claims, in[1], in[2], in[3], in[4], in[5], in[6], now)
        IN  /\ ~CreateClaimRaises
            /\ Len(after) = Len(claims) + 1
            /\ GetClaim(after, Last(after).claim_id) = Len(after)
            /\ SubSeq(after, 1, Len(claims)) = claims

\* a note as add_note stores it
Note(content, created_by, t) ==
    [content |-> content, created_by |-> created_by, timestamp |-> t]

\* C13: assign_adjuster on a claim without an adjuster sets the adjuster and
\* moves the claim to ASSIGNED from whatever status it has; on a claim with an
\* adjuster it replaces the adjuster, appends a reassignment note and leaves the
\* status as it is.
C13_AssignAdjuster ==
    \A i \in 1..Len(claims), a \in AdjusterInputs, u \in Users :
        LET c == claims[i]
            after == AssignAdjuster(c, a, u, now)
        IN  /\ after.assigned_adjuster = a
            /\ IF c.assigned_adjuster = None
               THEN /\ after.status = "ASSIGNED"
                    /\ after.notes =
                           c.notes \o <<Note(<<"Status changed", c.status, "ASSIGNED">>, u, now),
                                        Note(<<"Assigned", a>>, u, now)>>
               ELSE /\ after.status = c.status
                    /\ after.notes =
                           Append(c.notes,
                                  Note(<<"Reassigned", c.assigned_adjuster, a>>, u, now))

\* C13 witness: a claim under investigation, without an adjuster, was assigned
\* by a user and is ASSIGNED
C13_Witness ==
    \E i \in 1..Len(claims) :
        LET c == claims[i]
        IN  /\ Len(c.notes) >= 3
            /\ Last(c.notes).content[1] = "Assigned"
            /\ Last(c.notes).created_by \in Users
            /\ Transition(c, Len(c.notes) - 1, "INVESTIGATING", "ASSIGNED")
            /\ c.status = "ASSIGNED"
            /\ c.assigned_adjuster = Last(c.notes).content[2]

\* C14: verify_coverage sets coverage_verified for both outcomes, moves the
\* claim to DENIED when it is not covered and leaves the status alone when it
\* is; and no operation of the claim or of the processor clears
\* coverage_verified once it is set.
C14_CoverageVerified ==
    \A i \in 1..Len(claims) :
        LET c == claims[i]
        IN  /\ \A r \in CoverageReasons, u \in Users :
                   /\ VerifyCoverage(c, TRUE, r, u, now).coverage_verified
                   /\ VerifyCoverage(c, TRUE, r, u, now).status = c.status
                   /\ VerifyCoverage(c, FALSE, r, u, now).coverage_verified
                   /\ VerifyCoverage(c, FALSE, r, u, now).status = "DENIED"
            /\ c.coverage_verified =>
                   /\ \A after \in ClaimMethodResults(i) : after.coverage_verified
                   /\ \A after \in ProcessorResults(c.claim_id) :
                          after[i].coverage_verified

\* C14 witness: a claim was found not covered: it is verified and DENIED
C14_Witness ==
    \E i \in 1..Len(claims) :
        LET c == claims[i]
        IN  /\ c.coverage_verified
            /\ c.status = "DENIED"
            /\ Last(c.notes).content[1] = "Coverage denied"
            /\ Transition(c, Len(c.notes) - 1, "NEW", "DENIED")

\* the adjusters with 'fraud' among their specializations, in table order
FraudSpecialists ==
    SelectSeq(adjusters, LAMBDA adj : "fraud" \in adj.specializations)

\* C15 (as claimed): after a successful flag_for_investigation the claim is
\* with the first adjuster of the table that has 'fraud' among its
\* specializations; when no adjuster has it, the claim's adjuster is unchanged.
C15_FraudSpecialistAssigned ==
    \A id \in 1..Len(claims), r \in UserReasons, u \in Users :
        LET after == FlagForInvestigation(claims, id, r, u, now)[id]
        IN  /\ FlagForInvestigationResult(claims, id)
            /\ IF FraudSpecialists /= <<>>
               THEN after.assigned_adjuster = FraudSpecialists[1].id
               ELSE after.assigned_adjuster = claims[id].assigned_adjuster

\* C16: from every status each of the nine statuses is reached by one
\* update_status call; a CLOSED claim can be moved to REOPENED, and from there
\* to each of the nine.
C16_Permissive ==
    \A i \in 1..Len(claims), u \in Users :
        LET c == claims[i]
            closed == UpdateStatus(c, "CLOSED", u, now)
            reopened == UpdateStatus(closed, "REOPENED", u, now)
        IN  /\ \A s \in NineStatuses :
                   /\ UpdateStatusOk(s)
                   /\ UpdateStatus(c, s, u, now).status = s
            /\ closed.status = "CLOSED"
            /\ reopened.status = "REOPENED"
            /\ \A s \in NineStatuses : UpdateStatus(reopened, s, u, now).status = s

\* C16 witness: a claim was closed and then reopened
C16_Witness ==
    \E i \in 1..Len(claims) :
        LET c == claims[i]
        IN  /\ Len(c.notes) >= 3
            /\ c.status = "REOPENED"
            /\ Transition(c, Len(c.notes), "CLOSED", "REOPENED")
            /\ c.notes[Len(c.notes) - 1].content[1] = "Status changed"
            /\ c.notes[Len(c.notes) - 1].content[3] = "CLOSED"

\* the days that pass between a state and the compliance check made in it
Elapses == {0, 7, 8, 14, 15, 16, 30, 31, 40, 41, 45, 46, 90, 91}

\* the limits the specification gives a state code: its own profile, or
\* (15, 45, medium) when it has none
Limits(state_code) ==
    IF state_code \in {"CA", "NY", "TX", "FL"}
    THEN STATE_COMPLIANCE_REQUIREMENTS[state_code]
    ELSE [time_to_acknowledge |-> 15, time_to_decision |-> 45,
          documentation_level |-> "medium"]

\* the documents a documentation level asks for
DocumentsFor(level) ==
    CASE level = "high" -> 3
      [] level = "medium" -> 2
      [] level = "low" -> 1

\* C17: check_compliance_status reports is_compliant as the conjunction of its
\* three parts: acknowledgment (status not NEW, or days since reported within
\* the acknowledgment days), decision (status APPROVED, PARTIAL_APPROVED, DENIED
\* or CLOSED, or days within the decision days) and documentation (at least 3, 2
\* or 1 documents for level high, medium, low), with the limits of the claim's
\* state or of the DEFAULT profile.
C17_Compliance ==
    \A i \in 1..Len(claims), e \in Elapses :
        LET c == claims[i]
            report == CheckComplianceStatus(c, now + e)
            limits == Limits(c.state_code)
            days == (now + e) - c.reported_date
            acknowledged == c.status /= "NEW" \/ days <= limits.time_to_acknowledge
            decided == \/ c.status \in {"APPROVED", "PARTIAL_APPROVED", "DENIED", "CLOSED"}
                       \/ days <= limits.time_to_decision
            documented == Len(c.documents) >= DocumentsFor(limits.documentation_level)
        IN  /\ report.acknowledgment_compliant = acknowledged
            /\ report.decision_compliant = decided
            /\ report.documentation_compliant = documented
            /\ report.is_compliant = (acknowledged /\ decided /\ documented)
            /\ report.days_since_reported = days
            /\ report.required_acknowledgment_days = limits.time_to_acknowledge
            /\ report.required_decision_days = limits.time_to_decision

\* C17 witness: a New York claim with three documents, acknowledged and not
\* decided: compliant on day 30, not on day 31; and a claim of an unlisted state
\* that lacks the two documents of the DEFAULT profile
C17_Witness ==
    \E i, j \in 1..Len(claims) :
        /\ claims[i].state_code = "NY"
        /\ claims[i].status = "ASSIGNED"
        /\ Len(claims[i].documents) = 3
        /\ CheckComplianceStatus(claims[i], claims[i].reported_date + 30).is_compliant
        /\ ~CheckComplianceStatus(claims[i], claims[i].reported_date + 31).is_compliant
        /\ claims[j].state_code = "ZZ"
        /\ CheckComplianceStatus(claims[j], now).required_documents = 2
        /\ ~CheckComplianceStatus(claims[j], now).is_compliant

ReportElapses == {0, 8, 46}

\* the stored claims of a state code
InState(state) == {j \in 1..Len(claims) : claims[j].state_code = state}

RECURSIVE SumTotals(_, _)
SumTotals(report, states) ==
    IF states = {} THEN 0
    ELSE LET state == CHOOSE x \in states : TRUE
         IN  report[state].total_claims + SumTotals(report, states \ {state})

\* C19: get_compliance_report has one group for each state code among the
\* stored claims and no other; in each group total = compliant + non-compliant
\* >= 1, the totals add up to the number of stored claims, and the rate is
\* compliant / total * 100, between 0 and 100, with a total that is not zero.
C19_Report ==
    \A e \in ReportElapses :
        LET report == GetComplianceReport(claims, now + e)
        IN  /\ DOMAIN report = {claims[j].state_code : j \in 1..Len(claims)}
            /\ claims = <<>> => DOMAIN report = {}
            /\ SumTotals(report, DOMAIN report) = Len(claims)
            /\ \A state \in DOMAIN report :
                   LET group == report[state]
                   IN  /\ group.total_claims = Cardinality(InState(state))
                       /\ group.total_claims >= 1
                       /\ group.total_claims
                              = group.compliant_claims + group.non_compliant_claims
                       /\ group.compliant_claims =
                              Cardinality({j \in InState(state) :
                                  CheckComplianceStatus(claims[j], now + e).is_compliant})
                       /\ group.compliance_rate.den = group.total_claims
                       /\ group.compliance_rate.num = group.compliant_claims * 100
                       /\ group.compliance_rate.num >= 0
                       /\ group.compliance_rate.num <= 100 * group.compliance_rate.den

\* C19 witness: two claims of one state, one compliant and one not, so that the
\* group's rate is 50
C19_Witness ==
    \E i, j \in 1..Len(claims) :
        /\ i /= j
        /\ claims[i].state_code = claims[j].state_code
        /\ CheckComplianceStatus(claims[i], now).is_compliant
        /\ ~CheckComplianceStatus(claims[j], now).is_compliant
        /\ GetComplianceReport(claims, now)[claims[i].state_code].compliance_rate
               = Ratio(100, 2)

\* the ids of the stored claims, in map order
Ids(cs) == [j \in 1..Len(cs) |-> cs[j].claim_id]

\* the claim maps the five operations on an issued or unknown claim id leave
Handled(id) ==
    {UpdateClaimStatus(claims, id, s, u, now) : s \in StatusInputs, u \in Users}
    \cup {AssignClaim(claims, id, a, u, now) : a \in AdjusterInputs, u \in Users}
    \cup {SettlementClaims(claims, GetClaim(claims, id), d, terms[1], terms[2], now) :
              d \in DamagesInputs, terms \in SettlementTerms}
    \cup {FlagForInvestigation(claims, id, r, u, now) : r \in UserReasons, u \in Users}
    \cup {CloseClaim(claims, id, r, u, now) : r \in Resolutions, u \in Users}

\* C20: the stored claims have distinct ids and each is found under its own id;
\* create_claim adds exactly one claim, under an id not stored before, and keeps
\* the others; no other operation adds, removes or renames a claim: a closed or
\* denied claim is still in the map under its id.
C20_Identity ==
    /\ \A i, j \in 1..Len(claims) :
           claims[i].claim_id = claims[j].claim_id => i = j
    /\ \A i \in 1..Len(claims) : GetClaim(claims, claims[i].claim_id) = i
    /\ \A p \in Policies, ty \in ClaimTypes, inc \in IncidentDates :
           LET after == Created(claims, p, ty, inc)
           IN  /\ Len(after) = Len(claims) + 1
               /\ SubSeq(Ids(after), 1, Len(claims)) = Ids(claims)
               /\ \A j \in 1..Len(claims) : claims[j].claim_id /= Last(after).claim_id
    /\ \A id \in ClaimIdInputs \cup UnknownIds :
           \A after \in Handled(id) : Ids(after) = Ids(claims)
    /\ \A i \in 1..Len(claims) :
           claims[i].status \in {"CLOSED", "DENIED"} =>
               GetClaim(claims, claims[i].claim_id) = i

\* C20 witness: the first of two stored claims was closed by close_claim and is
\* still stored, before the second, each under its own id
C20_Witness ==
    /\ Len(claims) = 2
    /\ claims[1].status = "CLOSED"
    /\ Last(claims[1].notes).content[1] = "Claim closed"
    /\ claims[1].claim_id /= claims[2].claim_id
    /\ GetClaim(claims, claims[2].claim_id) = 2

\* r lists exactly the positions in S, each once, in the order of creation
ExactlyInOrder(r, S) ==
    /\ {r[j] : j \in 1..Len(r)} = S
    /\ \A j, k \in 1..Len(r) : j < k => r[j] < r[k]

\* the arguments of the queries, with a policy and an adjuster no claim has
PolicyInputs == Policies \cup {"NY-23-999999-C"}
AdjusterQueries == AdjusterInputs \cup {None}

\* C21: get_claims_by_status, get_claims_by_adjuster and get_claims_by_policy
\* return exactly the stored claims whose status, assigned_adjuster or
\* policy_number equals the argument, each once, in the order the claims were
\* created; the queries write nothing.
C21_Queries ==
    /\ \A s \in StatusInputs :
           ExactlyInOrder(GetClaimsByStatus(claims, s),
                          {i \in 1..Len(claims) : claims[i].status = s})
    /\ \A a \in AdjusterQueries :
           ExactlyInOrder(GetClaimsByAdjuster(claims, a),
                          {i \in 1..Len(claims) : claims[i].assigned_adjuster = a})
    /\ \A p \in PolicyInputs :
           ExactlyInOrder(GetClaimsByPolicy(claims, p),
                          {i \in 1..Len(claims) : claims[i].policy_number = p})

\* C21 witness: two claims of one policy share a status and differ in adjuster,
\* so a query returns both, in order, and another returns only the second
C21_Witness ==
    /\ Len(claims) = 2
    /\ GetClaimsByPolicy(claims, claims[1].policy_number) = <<1, 2>>
    /\ GetClaimsByStatus(claims, "ASSIGNED") = <<1, 2>>
    /\ claims[2].assigned_adjuster /= None
    /\ GetClaimsByAdjuster(claims, claims[2].assigned_adjuster) = <<2>>

\* a policy holder with the credit score c and no earlier claim
Holder(c) ==
    NewPolicyHolder("Pat", "1 Main St", CHOOSE dob \in BirthDates : TRUE, c, <<>>)

\* the risk factor the tiers give the credit score c
Tiered(c, f) ==
    /\ c >= 750 => f = Dec(85, 100)
    /\ (650 <= c /\ c < 750) => f = Dec(95, 100)
    /\ (600 <= c /\ c < 650) => f = Dec(1, 1)
    /\ c < 600 => f = Dec(12, 10)

\* C22: for every credit score c in 300..850 and an empty claim history,
\* get_risk_factor returns 0.85 if c >= 750, 0.95 if 650 <= c < 750, 1.0 if
\* 600 <= c < 650 and 1.2 if c < 600; the factor is non-increasing in c, and a
\* score given outside 300..850 at construction is first clamped into that range.
C22_RiskFactor ==
    /\ \A c \in 300..850 :
           /\ Holder(c).credit_score = c
           /\ Tiered(c, GetRiskFactor(Holder(c), Today))
    /\ \A c \in 300..849 :
           AtLeast(GetRiskFactor(Holder(c), Today), GetRiskFactor(Holder(c + 1), Today))
    /\ \A c \in 200..299 : Holder(c).credit_score = 300
    /\ \A c \in 851..950 : Holder(c).credit_score = 850
    /\ policy_holder /= <<>> => policy_holder[1].credit_score \in 300..850
    /\ (returned.call = "get_risk_factor" /\ policy_holder[1].claim_history = <<>>) =>
           Tiered(policy_holder[1].credit_score, returned.value)

\* C22 witness: get_risk_factor returned 0.85 for a holder without earlier
\* claims whose credit score is 750
C22_Witness ==
    /\ policy_holder /= <<>>
    /\ policy_holder[1].claim_history = <<>>
    /\ policy_holder[1].credit_score = 750
    /\ returned.call = "get_risk_factor"
    /\ returned.value = Ratio(17, 20)

\* the factor of the band a property of the given age is in
HomeBand(property_age) ==
    IF property_age \in 6..15 THEN Dec(11, 10)
    ELSE IF property_age \in 16..30 THEN Dec(12, 10)
    ELSE IF property_age > 30 THEN Dec(13, 10)
    ELSE Dec(1, 1)

\* the factor of the band a vehicle of the given age is in
VehicleBand(vehicle_age) ==
    IF vehicle_age \in 3..5 THEN Dec(1, 1)
    ELSE IF vehicle_age \in 6..10 THEN Dec(9, 10)
    ELSE IF vehicle_age > 10 THEN Dec(8, 10)
    ELSE Dec(13, 10)

\* C23: band selection is inclusive at the upper boundary: calculate_home_premium
\* uses age factor 1.0 for property_age <= 5, 1.1 for 6..15, 1.2 for 16..30 and
\* 1.3 above 30, and calculate_auto_premium uses vehicle-age factor 1.3 for
\* vehicle_age <= 2, 1.0 for 3..5, 0.9 for 6..10 and 0.8 above 10; ages exactly
\* 5, 15, 30 and 2, 5, 10 select the lower band.  The premium returned is the
\* premium of a new property (factor 1.0) or of a vehicle of age 3 (factor 1.0)
\* times the factor of the band.
C23_Bands ==
    /\ \A a \in 0..40 : HomeAgeFactor(a) = HomeBand(a)
    /\ \A a \in 0..20 : VehicleAgeFactor(a) = VehicleBand(a)
    /\ HomeAgeFactor(5) = Dec(1, 1) /\ HomeAgeFactor(15) = Dec(11, 10)
    /\ HomeAgeFactor(30) = Dec(12, 10)
    /\ VehicleAgeFactor(2) = Dec(13, 10) /\ VehicleAgeFactor(5) = Dec(1, 1)
    /\ VehicleAgeFactor(10) = Dec(9, 10)
    /\ returned.call = "calculate_home_premium" =>
           LET args == returned.args
           IN  returned.value =
                   Round2(Times(HomePremium(args[1], 0, args[3], args[4],
                                            policy_holder[1], Today),
                                HomeBand(args[2])))
    /\ returned.call = "calculate_auto_premium" =>
           LET args == returned.args
           IN  returned.value =
                   Round2(Times(AutoPremium(args[1], 3, args[3], args[4],
                                            policy_holder[1], Today),
                                VehicleBand(args[2])))

\* C23 witness: a masonry house of 200000 on the coast, exactly 15 years old,
\* was quoted at 1514.70 for a holder of risk factor 1.0: the band 6..15
C23_Witness ==
    /\ returned.call = "calculate_home_premium"
    /\ returned.args = <<200000, 15, "MASONRY", "COASTAL">>
    /\ GetRiskFactor(policy_holder[1], Today) = Dec(1, 1)
    /\ returned.value = Dec(151470, 100)

\* s begins with two uppercase letters, '-', two digits, '-', six digits, '-'
\* and one letter of A, H, C, F, M
HasNumberPrefix(s) ==
    /\ Len(s) >= 14
    /\ s[1] \in Uppercase /\ s[2] \in Uppercase
    /\ s[3] = "-"
    /\ s[4] \in Digits /\ s[5] \in Digits
    /\ s[6] = "-"
    /\ \A i \in 7..12 : s[i] \in Digits
    /\ s[13] = "-"
    /\ s[14] \in {"A", "H", "C", "F", "M"}

Category(score) ==
    IF score >= 70 THEN "EXTREME"
    ELSE IF score >= 40 THEN "HIGH"
    ELSE IF score >= 20 THEN "MODERATE"
    ELSE "LOW"

\* C25: calculate_flood_risk_score returns a risk_score in the range 0..100 for
\* every property_data, as its documentation states, and a category that is
\* EXTREME for score >= 70, HIGH for 40..69, MODERATE for 20..39 and LOW below
\* 20, with the prior-claims contribution capped at 20 points.
C25_FloodScore ==
    /\ \A n \in 0..10 : PriorClaimsPoints(n) \in 0..20
    /\ returned.call = "calculate_flood_risk_score" =>
           /\ returned.value[1] \in 0..100
           /\ returned.value[2] = Category(returned.value[1])

\* the ids of the adjusters of a table
AdjusterIds(table) == {table[k].id : k \in 1..Len(table)}

\* the claim carries the note of a flag
Flagged(c) ==
    \E k \in 1..Len(c.notes) : c.notes[k].content[1] = "Flagged for investigation"

\* the auto-assignment gave the new claim to a least-loaded adjuster among the
\* candidates for its type
AssignedAmongCandidates(new, ty) ==
    /\ Len(new.notes) >= 3
    /\ new.notes[2].content = <<"Status changed", "NEW", "ASSIGNED">>
    /\ new.notes[3].content[1] = "Assigned"
    /\ AutoAssignee(new) \in AdjusterIds(Candidates(ty))
    /\ \A a \in AdjusterIds(Candidates(ty)) :
           Assigned(claims, AutoAssignee(new)) <= Assigned(claims, a)

Reassigned(c) == \E k \in 1..Len(c.notes) : c.notes[k].content[1] = "Reassigned"

\* every stored claim was auto-assigned by create_claim and neither flagged nor
\* reassigned since, and all have the same candidates
OnlyAutoAssigned ==
    /\ auto_assignment
    /\ \A i \in 1..Len(claims) :
           /\ ~Flagged(claims[i])
           /\ ~Reassigned(claims[i])
           /\ AdjusterIds(Candidates(claims[i].claim_type))
                  = AdjusterIds(Candidates(claims[1].claim_type))

\* C27: when claims are only added by create_claim with auto_assignment
\* enabled, never reassigned or flagged, and every claim's candidate set is the
\* same set of adjusters, the numbers of claims assigned to any two of those
\* adjusters differ by at most 1.
C27_Balance ==
    (claims /= <<>> /\ OnlyAutoAssigned) =>
        \A a, b \in AdjusterIds(Candidates(claims[1].claim_type)) :
            Assigned(claims, a) - Assigned(claims, b) \in {-1, 0, 1}

\* C27 witness: three claims shared 2 and 1 between the two candidates, the
\* first of them closed before the others were created
C27_Witness ==
    /\ Len(claims) = 3
    /\ OnlyAutoAssigned
    /\ Cardinality(AdjusterIds(Candidates(claims[1].claim_type))) = 2
    /\ claims[1].status = "CLOSED"
    /\ claims[1].last_updated <= claims[2].notes[1].timestamp
    /\ Assigned(claims, claims[1].assigned_adjuster) = 2
    /\ Assigned(claims, claims[2].assigned_adjuster) = 1

\* verify_coverage found the claim not covered
CoverageDenied(c) ==
    \E k \in 1..Len(c.notes) : c.notes[k].content[1] = "Coverage denied"

C29_LastUpdated ==
    \A i \in 1..Len(claims) :
        LET c == claims[i]
        IN  /\ c.notes /= <<>>
            /\ c.notes[1].content = <<"Claim created">>
            /\ c.notes[1].created_by = SYSTEM
            /\ c.last_updated = Last(c.notes).timestamp
            /\ \A after \in ClaimMethodResults(i) :
                   after.last_updated = Last(after.notes).timestamp
            /\ (Len(c.notes) = 1 /\ c.notes[1].timestamp /= c.reported_date) =>
                   c.last_updated /= c.reported_date

\* C29 witness: a document was added a day after the claim was created, and
\* last_updated is the day of the document's note, not the reported date
C29_Witness ==
    \E i \in 1..Len(claims) :
        LET c == claims[i]
        IN  /\ Len(c.notes) = 2
            /\ c.notes[2].content[1] = "Document added"
            /\ c.notes[1].timestamp < c.notes[2].timestamp
            /\ c.last_updated = c.notes[2].timestamp
            /\ c.last_updated /= c.reported_date

\* check_compliance_status finds the claim's documentation compliant at t
DocumentationCompliant(c, t) == CheckComplianceStatus(c, t).documentation_compliant

\* check_compliance_status finds the claim's decision compliant at t
DecisionCompliant(c, t) == CheckComplianceStatus(c, t).decision_compliant

\* the decision window of the claim's state has passed at t
WindowPassed(c, t) == t - c.reported_date > Requirements(c.state_code).time_to_decision

\* C30: documents are append-only, so documentation_compliant is stable: once
\* check_compliance_status reports documentation_compliant = true for a claim,
\* it reports true in every later state, whereas decision_compliant goes from
\* true back to false when a decided claim is moved to REOPENED after the
\* decision window has passed.
C30_Stable ==
    [][\A i \in 1..Len(claims) :
           /\ Len(claims') >= Len(claims)
           /\ SubSeq(claims'[i].documents, 1, Len(claims[i].documents))
                  = claims[i].documents
           /\ DocumentationCompliant(claims[i], now) =>
                  DocumentationCompliant(claims'[i], now')
           /\ (/\ claims[i].status = "APPROVED"
               /\ claims'[i].status = "REOPENED"
               /\ WindowPassed(claims[i], now)) =>
                  /\ DecisionCompliant(claims[i], now)
                  /\ ~DecisionCompliant(claims'[i], now')]_vars

\* C30 witness: a claim with the documents its state requires was approved and,
\* after the decision window, reopened: its documentation is compliant and its
\* decision no longer is
C30_Witness ==
    \E i \in 1..Len(claims) :
        LET c == claims[i]
        IN  /\ Last(c.notes).content = <<"Status changed", "APPROVED", "REOPENED">>
            /\ c.status = "REOPENED"
            /\ WindowPassed(c, now)
            /\ c.documents /= <<>>
            /\ DocumentationCompliant(c, now)
            /\ ~DecisionCompliant(c, now)

=============================================================================
